---- MODULE Spec2Model ----
(***************************************************************************)
(* CarTrackerBot: the SQLite store (users, cars, transactions, reminders), *)
(* the update handlers that write it, and the background scheduler tasks.  *)
(* aiogram runs every incoming update as its own asyncio task, so handlers *)
(* of the same user interleave at their awaits; each aiosqlite call is its *)
(* own connection and commit.  A handler is therefore modelled as one      *)
(* action per database call, with the values it read kept in its request   *)
(* record in between.                                                      *)
(***************************************************************************)
EXTENDS Integers, Sequences, FiniteSets, TLC

\* ------------------------------------------------------------------ bounds
MaxUser == 2
MaxReq == 2
MaxDay == 2
MaxTx == 3
MaxMileageSteps == 1
MileageStep == 1005
MaxCar == 1
MaxGrant == 1
MaxEditField == 1
MaxReminder == 2
MaxOutbox == 4
SampleIntervalDays == 3
MaxPeriod == 2
MaxKm == 3

\* ------------------------------------------------------- program constants
referral_bonus == 250
add_car == 100
fill_profile == 500
mileage_allowance_per_day == 1000
km_per_nut == 10
DefaultMileageAllowance == 1000
\* make, model, year, engine_model, engine_volume, tank_volume, fuel_type,
\* power, transmission, drive_type, body_type
NumSummaryFields == 11
SummaryFields == 1..NumSummaryFields
\* fuel_type, transmission, body_type: the fields set from an options keyboard
OptionFields == {7, 9, 11}
\* the fields the dialogues edit: the first text fields and the option fields
EditFields == (1..MaxEditField) \cup OptionFields

\* SQL NULL / Python None in a column or variable that holds ids, days or km.
NULL == -1
\* users.mileage_reminder_period INTEGER DEFAULT 1
DefaultMileageReminderPeriod == 1
UserIds == 1..MaxUser
ReqIds == 1..MaxReq
MileageInputs == {k * MileageStep : k \in 0..MaxMileageSteps}
\* A message text that str.isdigit() rejects ("abc", "-5", "1.5").
NonDigit == -1

VARIABLES
    users_has_referral_code, \* whether table users has the column create_user writes
    sqlite_sequence,         \* AUTOINCREMENT: the last id given out per table
    users,                   \* user_id -> row of table users
    cars,                    \* car_id -> row of table cars
    transactions,            \* table transactions, in transaction_id order
    reminders,               \* reminder_id -> row of table reminders
    fsm,                     \* user_id -> aiogram FSM state and data of the chat
    reqs,                    \* request slot -> handler task in flight
    today,                   \* the calendar day, as a day number
    tasks,                   \* the background tasks main() created
    outbox                   \* the messages handed to bot.send_message, in order

vars == <<users_has_referral_code, sqlite_sequence, users, cars, transactions, reminders, fsm, reqs,
          today, tasks, outbox>>

\* What a handler of the chat never touches.
background == <<tasks, outbox>>

\* ----------------------------------------------------------------- helpers
Min(a, b) == IF a <= b THEN a ELSE b

RECURSIVE SumAmounts(_, _)
\* SELECT SUM(amount) FROM transactions WHERE user_id = u, over the first n rows
SumAmounts(u, n) ==
    IF n = 0 THEN 0
    ELSE SumAmounts(u, n - 1)
         + (IF transactions[n].user_id = u THEN transactions[n].amount ELSE 0)

\* The fixed description strings of the handlers.  arg carries the number an
\* f-string formats into the text, 0 when the text has none.
Description(text) == [text |-> text, arg |-> 0]
MileageDescription(rewardable_km) == [text |-> "mileage_update_km", arg |-> rewardable_km]

\* The text "7,3,1" Reminder.add_reminder stores, as its comma-separated tokens
InitialSchedule == <<7, 3, 1>>

\* NULL in the TEXT column notification_schedule, which holds token sequences
NullText == <<NULL>>

\* The rows of a query in the order of their ids
RECURSIVE RowsInIdOrder(_)
RowsInIdOrder(S) ==
    IF S = {} THEN <<>>
    ELSE LET least == CHOOSE x \in S : \A y \in S : x <= y
         IN <<least>> \o RowsInIdOrder(S \ {least})

\* FSMContext of a chat after state.clear(): no state, no data
StateClear == [state |-> "none", field_to_edit |-> NULL]

IdleReq ==
    [handler |-> "none", pc |-> "idle", user_id |-> NULL, car_id |-> NULL,
     new_mileage |-> 0, old_mileage |-> 0, allowance_read |-> 0, days_passed |-> 0,
     referrer_id |-> NULL, is_new_user |-> FALSE,
     reminder_id |-> NULL, day_to_remove |-> NULL, schedule_list |-> <<>>]

\* The grants that requests in flight have still to insert.
PendingAwards == Cardinality({r \in ReqIds : reqs[r].pc = "award"})

\* ------------------------------------------------------------ transactions
\* Transaction.add_transaction: INSERT and UPDATE users.balance_nuts inside
\* one BEGIN .. commit.  The UPDATE matches no row when the user is absent
\* (foreign keys are not enforced: no PRAGMA foreign_keys).
add_transaction_rows(user_id, amount, description) ==
    IF amount = 0 THEN transactions
    ELSE Append(transactions,
                [user_id |-> user_id, amount |-> amount, description |-> description])

add_transaction_users(user_id, amount) ==
    IF amount = 0 \/ user_id \notin DOMAIN users THEN users
    ELSE [users EXCEPT ![user_id].balance_nuts = @ + amount]

add_transaction(user_id, amount, description) ==
    /\ transactions' = add_transaction_rows(user_id, amount, description)
    /\ users' = add_transaction_users(user_id, amount)

\* Mutant: the gate of the one-time rewards never finds a transaction.
HasReceivedNoReward(user_id, description) == FALSE

\* Transaction.has_received_reward
has_received_reward(user_id, description) ==
    \E i \in 1..Len(transactions) :
        /\ transactions[i].user_id = user_id
        /\ transactions[i].description = description

\* -------------------------------------------------------------------- cars
\* Car.get_active_car, the row it returns (NULL when none): the user's
\* active_car_id if set, otherwise the user's car with the greatest car_id.
CarsOf(user_id) == {c \in DOMAIN cars : cars[c].user_id = user_id}

get_active_car(user_id) ==
    LET active_id == IF user_id \in DOMAIN users THEN users[user_id].active_car_id
                     ELSE NULL
    IN  IF active_id # NULL
        THEN (IF active_id \in DOMAIN cars THEN active_id ELSE NULL)
        ELSE IF CarsOf(user_id) = {} THEN NULL
        ELSE CHOOSE c \in CarsOf(user_id) : \A d \in CarsOf(user_id) : d <= c

\* ------------------------------------------------------------------ users
\* User.create_user: INSERT OR IGNORE INTO users (.., referrer_id,
\* referral_code).  The statement names the column referral_code, which
\* SCHEMA_SQL does not create: on a database that lacks it the call raises
\* and the handler ends there.
create_user_raises == ~users_has_referral_code

create_user(user_id, referrer_id) ==
    IF user_id \in DOMAIN users THEN users
    ELSE [u \in DOMAIN users \cup {user_id} |->
            IF u = user_id
            THEN [balance_nuts |-> 0, active_car_id |-> NULL, referrer_id |-> referrer_id,
                  mileage_reminder_period |-> DefaultMileageReminderPeriod]
            ELSE users[u]]

\* Car.get_active_car writes the car it fell back to into users.active_car_id.
get_active_car_users(user_id) ==
    IF /\ user_id \in DOMAIN users
       /\ users[user_id].active_car_id = NULL
       /\ get_active_car(user_id) # NULL
    THEN [users EXCEPT ![user_id].active_car_id = get_active_car(user_id)]
    ELSE users

\* Handler tasks that have not finished.
InFlight == Cardinality({r \in ReqIds : reqs[r].pc # "idle"})

\* ----------------------------------------------------------------- /start
\* command.args of /start: none, a string of digits, or any other text.
StartArgs ==
    {[kind |-> "none", id |-> NULL], [kind |-> "promo", id |-> NULL]}
        \cup {[kind |-> "digits", id |-> i] : i \in 0..MaxUser}

\* command_start lines 40-56: the referrer the arguments name
referrer_of(user_id, args) ==
    IF args.kind = "digits" /\ args.id # user_id THEN args.id ELSE NULL

\* command_start lines 30-56: User.get_user, then the arguments
command_start_get_user(r, u, args) ==
    /\ reqs[r].pc = "idle"
    /\ Len(transactions) + InFlight < MaxTx
    /\ reqs' = [reqs EXCEPT ![r] =
                  [IdleReq EXCEPT !.handler = "command_start", !.pc = "create_user",
                                  !.user_id = u,
                                  !.is_new_user = (u \notin DOMAIN users),
                                  !.referrer_id = referrer_of(u, args)]]
    /\ fsm' = [fsm EXCEPT ![u] = StateClear]
    /\ UNCHANGED <<users_has_referral_code, sqlite_sequence, users, cars, transactions, reminders, today,
                   background>>

\* line 61: is_new_user and referrer_id (None and 0 are both false)
gets_referral_bonus(q) == q.is_new_user /\ q.referrer_id \notin {NULL, 0}

\* lines 58-59: User.create_user
command_start_create_user(r) ==
    /\ reqs[r].handler = "command_start"
    /\ reqs[r].pc = "create_user"
    /\ IF create_user_raises
       THEN /\ reqs' = [reqs EXCEPT ![r] = IdleReq]
            /\ UNCHANGED users
       ELSE /\ users' = create_user(reqs[r].user_id, reqs[r].referrer_id)
            /\ reqs' = [reqs EXCEPT ![r].pc =
                          IF gets_referral_bonus(reqs[r]) THEN "bonus" ELSE "menu"]
    /\ UNCHANGED <<users_has_referral_code, sqlite_sequence, cars, transactions, reminders, fsm, today,
                   background>>

\* lines 61-66: the referral bonus
command_start_bonus(r) ==
    /\ reqs[r].handler = "command_start"
    /\ reqs[r].pc = "bonus"
    /\ add_transaction(reqs[r].referrer_id, referral_bonus, Description("referral"))
    /\ reqs' = [reqs EXCEPT ![r].pc = "menu"]
    /\ UNCHANGED <<users_has_referral_code, sqlite_sequence, cars, reminders, fsm, today, background>>

\* lines 82-86: Car.get_active_car, then the menu or the welcome text
command_start_menu(r) ==
    /\ reqs[r].handler = "command_start"
    /\ reqs[r].pc = "menu"
    /\ users' = get_active_car_users(reqs[r].user_id)
    /\ reqs' = [reqs EXCEPT ![r] = IdleReq]
    /\ UNCHANGED <<users_has_referral_code, sqlite_sequence, cars, transactions, reminders, fsm, today,
                   background>>

\* ---------------------------------------------------------------- /addnuts
\* admin_handlers.add_nuts_command: the amount must be positive and the
\* target a row of users (rows of users are never deleted, so the check and
\* the grant are taken as one step).
add_nuts_command(user_id, amount) ==
    /\ Len(transactions) + InFlight < MaxTx
    /\ IF amount <= 0 \/ user_id \notin DOMAIN users
       THEN UNCHANGED <<transactions, users>>
       ELSE add_transaction(user_id, amount, Description("admin_grant"))
    /\ UNCHANGED <<users_has_referral_code, sqlite_sequence, cars, reminders, fsm, reqs, today, background>>

\* ------------------------------------------------------------ registration
\* registration_handlers.start_registration: User.create_user, then the
\* dialogue (car_name, car_mileage, last_oil_change, oil_change_interval),
\* whose states before the last only store the answers in the FSM data.
start_registration(u) ==
    /\ IF create_user_raises
       THEN UNCHANGED <<users, fsm>>
       ELSE /\ users' = IF u \in DOMAIN users THEN get_active_car_users(u)
                        ELSE create_user(u, NULL)
            /\ fsm' = [fsm EXCEPT ![u].state = "oil_change_interval"]
    /\ UNCHANGED <<users_has_referral_code, sqlite_sequence, cars, transactions, reminders, reqs, today,
                   background>>

\* User.set_active_car
set_active_car(user_id, car_id) ==
    IF user_id \in DOMAIN users
    THEN [users EXCEPT ![user_id].active_car_id = car_id]
    ELSE users

\* Car.add_car: the new row; the schema defaults fill what the INSERT omits.
add_car_row(user_id, mileage) ==
    [user_id |-> user_id, mileage |-> mileage,
     mileage_allowance |-> DefaultMileageAllowance,
     last_mileage_update_at |-> today,
     last_allowance_update_at |-> today,
     summary_filled |-> {}]

\* Reminder.add_reminder as _finish_registration calls it: its positional
\* arguments put the oil interval into type (stored as its decimal text)
\* and the last oil change into interval_km.
add_reminder_row_registration(car_id, last_oil_change) ==
    [car_id |-> car_id, name |-> "oil_change", type |-> "digits",
     interval_km |-> last_oil_change, last_reset_mileage |-> NULL,
     interval_days |-> NULL, last_reset_date |-> NULL, is_repeating |-> FALSE,
     target_mileage |-> NULL, target_date |-> NULL,
     notification_schedule |-> InitialSchedule]

Insert(table, id, row) ==
    [k \in DOMAIN table \cup {id} |-> IF k = id THEN row ELSE table[k]]

\* process_oil_interval_callback / process_oil_interval_custom, then
\* _finish_registration lines 122-131: Car.add_car, User.set_active_car,
\* Reminder.add_reminder
finish_registration_lines_122_131(r, u, car_mileage, last_oil_change) ==
    /\ reqs[r].pc = "idle"
    /\ fsm[u].state = "oil_change_interval"
    /\ Len(transactions) + InFlight < MaxTx
    /\ LET car_id == sqlite_sequence.cars + 1
           reminder_id == sqlite_sequence.reminders + 1
       IN  /\ cars' = Insert(cars, car_id, add_car_row(u, car_mileage))
           /\ users' = set_active_car(u, car_id)
           /\ reminders' = Insert(reminders, reminder_id,
                                  add_reminder_row_registration(car_id, last_oil_change))
           /\ sqlite_sequence' = [cars |-> car_id, reminders |-> reminder_id]
           /\ reqs' = [reqs EXCEPT ![r] =
                         [IdleReq EXCEPT !.handler = "finish_registration",
                                         !.pc = "has_received_reward",
                                         !.user_id = u, !.car_id = car_id]]
    /\ UNCHANGED <<users_has_referral_code, transactions, fsm, today, background>>

\* the same, while the table of cars is within its bound
finish_registration_add_car(r, u, car_mileage, last_oil_change) ==
    /\ sqlite_sequence.cars < MaxCar
    /\ finish_registration_lines_122_131(r, u, car_mileage, last_oil_change)

\* lines 133-134: Transaction.has_received_reward
finish_registration_check(r) ==
    /\ reqs[r].handler = "finish_registration"
    /\ reqs[r].pc = "has_received_reward"
    /\ reqs' = [reqs EXCEPT ![r].pc =
                  IF has_received_reward(reqs[r].user_id, Description("add_car"))
                  THEN "clear" ELSE "award"]
    /\ UNCHANGED <<users_has_referral_code, sqlite_sequence, users, cars, transactions,
                   reminders, fsm, today, background>>

\* lines 135-139
finish_registration_award(r) ==
    /\ reqs[r].handler = "finish_registration"
    /\ reqs[r].pc = "award"
    /\ add_transaction(reqs[r].user_id, add_car, Description("add_car"))
    /\ reqs' = [reqs EXCEPT ![r].pc = "clear"]
    /\ UNCHANGED <<users_has_referral_code, sqlite_sequence, cars, reminders, fsm, today,
                   background>>

\* the menu, then state.clear()
finish_registration_clear(r) ==
    /\ reqs[r].handler = "finish_registration"
    /\ reqs[r].pc = "clear"
    /\ fsm' = [fsm EXCEPT ![reqs[r].user_id] = StateClear]
    /\ reqs' = [reqs EXCEPT ![r] = IdleReq]
    /\ UNCHANGED <<users_has_referral_code, sqlite_sequence, users, cars, transactions,
                   reminders, today, background>>

\* ------------------------------------------------------------ the database
\* init_db on a database file with no rows.  CREATE TABLE IF NOT EXISTS keeps
\* a users table that already exists, with or without referral_code.
Init ==
    /\ users_has_referral_code \in BOOLEAN
    /\ sqlite_sequence = [cars |-> 0, reminders |-> 0]
    /\ users = <<>>
    /\ cars = <<>>
    /\ transactions = <<>>
    /\ reminders = <<>>
    /\ fsm = [u \in UserIds |-> StateClear]
    /\ reqs = [r \in ReqIds |-> IdleReq]
    /\ today = 0
    /\ tasks = <<>>
    /\ outbox = <<>>

Next ==
    \/ \E r \in ReqIds, u \in UserIds, args \in StartArgs : command_start_get_user(r, u, args)
    \/ \E r \in ReqIds : command_start_create_user(r)
    \/ \E r \in ReqIds : command_start_bonus(r)
    \/ \E r \in ReqIds : command_start_menu(r)
    \/ \E u \in 1..(MaxUser + 1), amount \in 0..MaxGrant : add_nuts_command(u, amount)
    \/ \E u \in UserIds : start_registration(u)
    \/ \E r \in ReqIds, u \in UserIds, m \in MileageInputs :
         finish_registration_add_car(r, u, m, m)
    \/ \E r \in ReqIds : finish_registration_check(r)
    \/ \E r \in ReqIds : finish_registration_award(r)
    \/ \E r \in ReqIds : finish_registration_clear(r)

\* The store, /start, /addnuts and the registration of cars.
Spec == Init /\ [][Next]_vars

\* C1: the cached balance equals the sum of the amounts of the owner's
\* transactions, stated for the owners that have a row in users (an owner
\* with ledger rows and no row has no cached balance to compare).
C1_BalanceIsLedgerSum ==
    \A u \in DOMAIN users :
        users[u].balance_nuts = SumAmounts(u, Len(transactions))

\* ----------------------------------------------------------- car profile
\* Car.update_car_details with one field; a value that reads back false
\* (no text in the message) leaves the field unfilled.
update_car_details(car_id, field, value) ==
    IF car_id \in DOMAIN cars
    THEN [cars EXCEPT ![car_id].summary_filled =
            IF value THEN @ \cup {field} ELSE @ \ {field}]
    ELSE cars

\* summary_handlers.show_summary_menu: state.clear(), then the summary
show_summary_menu(u) ==
    /\ fsm[u] # StateClear
    /\ fsm' = [fsm EXCEPT ![u] = StateClear]
    /\ UNCHANGED <<users_has_referral_code, sqlite_sequence, users, cars, transactions,
                   reminders, reqs, today, background>>

\* summary_handlers.start_edit_field: set_state(get_value), field_to_edit
start_edit_field(u, field) ==
    /\ fsm' = [fsm EXCEPT ![u] = [state |-> "get_value", field_to_edit |-> field]]
    /\ UNCHANGED <<users_has_referral_code, sqlite_sequence, users, cars, transactions,
                   reminders, reqs, today, background>>

\* summary_handlers.process_option_selection lines 125-135:
\* Car.get_active_car, Car.update_car_details, state.clear()
process_option_selection_update(r, u, field) ==
    /\ reqs[r].pc = "idle"
    /\ Len(transactions) + InFlight < MaxTx
    /\ LET car_id == get_active_car(u) IN
       IF car_id = NULL
       THEN UNCHANGED <<users, cars, reqs, fsm>>
       ELSE /\ users' = get_active_car_users(u)
            /\ cars' = update_car_details(car_id, field, TRUE)
            /\ fsm' = [fsm EXCEPT ![u] = StateClear]
            /\ reqs' = [reqs EXCEPT ![r] =
                          [IdleReq EXCEPT !.handler = "process_option_selection",
                                          !.pc = "check_profile",
                                          !.user_id = u, !.car_id = car_id]]
    /\ UNCHANGED <<users_has_referral_code, sqlite_sequence, transactions, reminders, today,
                   background>>

\* summary_handlers.process_field_value lines 146-165: the field of the FSM
\* data, Car.get_active_car, Car.update_car_details
process_field_value_update(r, u, value) ==
    /\ reqs[r].pc = "idle"
    /\ fsm[u].state = "get_value"
    /\ Len(transactions) + InFlight < MaxTx
    /\ LET car_id == get_active_car(u)
           field == fsm[u].field_to_edit IN
       IF field = NULL \/ car_id = NULL
       THEN /\ fsm' = [fsm EXCEPT ![u] = StateClear]
            /\ UNCHANGED <<users, cars, reqs>>
       ELSE /\ users' = get_active_car_users(u)
            /\ cars' = update_car_details(car_id, field, value)
            /\ reqs' = [reqs EXCEPT ![r] =
                          [IdleReq EXCEPT !.handler = "process_field_value",
                                          !.pc = "check_profile",
                                          !.user_id = u, !.car_id = car_id]]
            /\ UNCHANGED fsm
    /\ UNCHANGED <<users_has_referral_code, sqlite_sequence, transactions, reminders, today,
                   background>>

\* _check_and_award_profile_completion lines 99-109: all(summary_fields) of
\* the active car (None there raises and ends the handler)
profile_complete(user_id) ==
    /\ get_active_car(user_id) # NULL
    /\ cars[get_active_car(user_id)].summary_filled = SummaryFields

\* what the handler does after _check_and_award_profile_completion:
\* process_field_value still has its state.clear() to run
AfterProfileCheck(q) ==
    IF q.handler = "process_field_value" THEN [q EXCEPT !.pc = "clear"] ELSE IdleReq

check_and_award_profile_completion_fields(r) ==
    /\ reqs[r].handler \in {"process_option_selection", "process_field_value"}
    /\ reqs[r].pc = "check_profile"
    /\ users' = get_active_car_users(reqs[r].user_id)
    /\ reqs' = [reqs EXCEPT ![r] =
                  IF profile_complete(reqs[r].user_id)
                  THEN [@ EXCEPT !.pc = "has_received_reward"]
                  ELSE AfterProfileCheck(@)]
    /\ UNCHANGED <<users_has_referral_code, sqlite_sequence, cars, transactions, reminders,
                   fsm, today, background>>

\* line 111: Transaction.has_received_reward
check_and_award_profile_completion_check(r) ==
    /\ reqs[r].handler \in {"process_option_selection", "process_field_value"}
    /\ reqs[r].pc = "has_received_reward"
    /\ reqs' = [reqs EXCEPT ![r] =
                  IF has_received_reward(reqs[r].user_id, Description("fill_profile"))
                  THEN AfterProfileCheck(@)
                  ELSE [@ EXCEPT !.pc = "award"]]
    /\ UNCHANGED <<users_has_referral_code, sqlite_sequence, users, cars, transactions,
                   reminders, fsm, today, background>>

\* lines 112-113: Transaction.add_transaction; what follows in the helper
\* only sends and deletes a message
check_and_award_profile_completion_award(r) ==
    /\ reqs[r].handler \in {"process_option_selection", "process_field_value"}
    /\ reqs[r].pc = "award"
    /\ add_transaction(reqs[r].user_id, fill_profile, Description("fill_profile"))
    /\ reqs' = [reqs EXCEPT ![r] = AfterProfileCheck(@)]
    /\ UNCHANGED <<users_has_referral_code, sqlite_sequence, cars, reminders, fsm, today,
                   background>>

\* process_field_value line 167: state.clear()
process_field_value_clear(r) ==
    /\ reqs[r].handler = "process_field_value"
    /\ reqs[r].pc = "clear"
    /\ fsm' = [fsm EXCEPT ![reqs[r].user_id] = StateClear]
    /\ reqs' = [reqs EXCEPT ![r] = IdleReq]
    /\ UNCHANGED <<users_has_referral_code, sqlite_sequence, users, cars, transactions,
                   reminders, today, background>>

\* A registered user with one car; the fields outside EditFields were filled
\* by earlier edits, those of EditFields are filled or not.
InitProfile ==
    /\ users_has_referral_code = TRUE
    /\ sqlite_sequence = [cars |-> 1, reminders |-> 0]
    /\ users = (1 :> [balance_nuts |-> add_car, active_car_id |-> 1,
                      referrer_id |-> NULL,
                      mileage_reminder_period |-> DefaultMileageReminderPeriod])
    /\ \E filled \in SUBSET EditFields :
         cars = (1 :> [user_id |-> 1, mileage |-> 0,
                       mileage_allowance |-> DefaultMileageAllowance,
                       last_mileage_update_at |-> 0,
                       last_allowance_update_at |-> 0,
                       summary_filled |-> (SummaryFields \ EditFields) \cup filled])
    /\ transactions = <<[user_id |-> 1, amount |-> add_car,
                         description |-> Description("add_car")]>>
    /\ reminders = <<>>
    /\ fsm = [u \in UserIds |-> StateClear]
    /\ reqs = [r \in ReqIds |-> IdleReq]
    /\ today = 0
    /\ tasks = <<>>
    /\ outbox = <<>>

NextProfile ==
    \/ \E u \in UserIds : show_summary_menu(u)
    \/ \E u \in UserIds, field \in EditFields : start_edit_field(u, field)
    \/ \E r \in ReqIds, u \in UserIds, field \in OptionFields :
         process_option_selection_update(r, u, field)
    \/ \E r \in ReqIds, u \in UserIds, value \in BOOLEAN :
         process_field_value_update(r, u, value)
    \/ \E r \in ReqIds : check_and_award_profile_completion_fields(r)
    \/ \E r \in ReqIds : check_and_award_profile_completion_check(r)
    \/ \E r \in ReqIds : check_and_award_profile_completion_award(r)
    \/ \E r \in ReqIds : process_field_value_clear(r)

\* Edits of the car profile, handled as concurrent tasks.
SpecProfile == InitProfile /\ [][NextProfile]_vars

\* The transactions of user_id with this description among the first n rows.
RECURSIVE CountRewards(_, _, _)
CountRewards(user_id, description, n) ==
    IF n = 0 THEN 0
    ELSE CountRewards(user_id, description, n - 1)
         + (IF /\ transactions[n].user_id = user_id
               /\ transactions[n].description = description
            THEN 1 ELSE 0)

\* C2: however two requests of one owner that both complete the profile
\* interleave, the ledger holds at most one profile-completion transaction
\* of that owner and the balance is incremented once.
C2_ProfileRewardOnce ==
    \A u \in UserIds :
        /\ CountRewards(u, Description("fill_profile"), Len(transactions)) <= 1
        /\ u \in DOMAIN users => users[u].balance_nuts <= add_car + fill_profile

\* ------------------------------------------------- one-time rewards
\* No handler is between two of its database calls.
AllIdle == \A r \in ReqIds : reqs[r].pc = "idle"

\* An empty database, or a registered user whose car profile is nearly
\* filled.
InitRewardSeq == Init \/ InitProfile

\* Registrations of cars and selections of profile options by one owner,
\* handled one after the other: a handler starts when the one before it
\* has finished.
NextRewardSeq ==
    \/ \E u \in {1} : AllIdle /\ start_registration(u)
    \/ \E r \in ReqIds, u \in {1} :
         /\ AllIdle
         /\ sqlite_sequence.cars < MaxCar + 1
         /\ finish_registration_lines_122_131(r, u, 0, 0)
    \/ \E r \in ReqIds : finish_registration_check(r)
    \/ \E r \in ReqIds : finish_registration_award(r)
    \/ \E r \in ReqIds : finish_registration_clear(r)
    \/ \E r \in ReqIds, u \in {1}, field \in OptionFields :
         AllIdle /\ process_option_selection_update(r, u, field)
    \/ \E r \in ReqIds : check_and_award_profile_completion_fields(r)
    \/ \E r \in ReqIds : check_and_award_profile_completion_check(r)
    \/ \E r \in ReqIds : check_and_award_profile_completion_award(r)

SpecRewardSeq == InitRewardSeq /\ [][NextRewardSeq]_vars

\* The description of the one-time reward a handler grants.
RewardOf(handler) ==
    IF handler = "finish_registration"
    THEN Description("add_car") ELSE Description("fill_profile")

\* Request r leaves the gate of its reward: the trigger has been handled.
TriggerHandled(r) ==
    /\ reqs[r].pc \in {"has_received_reward", "award"}
    /\ reqs'[r].pc \notin {"has_received_reward", "award"}

\* C21: with the triggers handled one after the other, once a trigger of a
\* one-time reward has been handled the owner has exactly one transaction
\* with that description, however often it was triggered before, and the
\* balance holds each of the two rewards once per such transaction.
C21_SecondTriggerGrantsNothing ==
    [][/\ \A r \in ReqIds, u \in UserIds :
            (TriggerHandled(r) /\ reqs[r].user_id = u) =>
               \E description \in {RewardOf(reqs[r].handler)} :
                  CountRewards(u, description, Len(transactions))' = 1
       /\ \A u \in UserIds :
            /\ CountRewards(u, Description("add_car"), Len(transactions))' <= 1
            /\ CountRewards(u, Description("fill_profile"), Len(transactions))' <= 1
            /\ u \in DOMAIN users' =>
                 users'[u].balance_nuts =
                    add_car * CountRewards(u, Description("add_car"),
                                           Len(transactions))'
                    + fill_profile * CountRewards(u, Description("fill_profile"),
                                                  Len(transactions))']_vars

\* One owner registered a second car, both registrations are finished, and
\* the ledger holds the one first-vehicle transaction.
C21_Witness ==
    /\ AllIdle
    /\ \E u \in UserIds :
         /\ Cardinality(CarsOf(u)) = 2
         /\ \A c \in CarsOf(u) : cars[c].summary_filled = {}
         /\ users[u].balance_nuts = add_car
    /\ Len(transactions) = 1

\* C22: no owner ever holds two referral-bonus transactions.
C22_ReferralBonusOnce ==
    \A u \in 0..MaxUser :
        CountRewards(u, Description("referral"), Len(transactions)) <= 1

\* ------------------------------------------------------- background tasks
\* Car.get_cars_needing_mileage_update compares with this number of days
MileageReminderDays == 7

\* bot.send_message: the outbox keeps the last MaxOutbox messages; delivered
\* is FALSE when Telegram raised and the send_* wrapper returned False
send_message(message) ==
    IF Len(outbox) < MaxOutbox
    THEN Append(outbox, message)
    ELSE Append(Tail(outbox), message)

\* A coroutine of jobs/scheduler.py at one of its awaits.
Task(fn, pc) == [fn |-> fn, pc |-> pc, rows |-> <<>>, slept_on |-> NULL, today |-> NULL]

\* scheduler.py line 50: the loop condition of check_mileage_updates
WhileTrue == TRUE

\* Where control goes when the coroutine task.fn of task t returns:
\* daily_scheduler lines 91-96 run their jobs in sequence and then sleep; a
\* coroutine main() started directly is done.
Return(t, task) ==
    IF t = "daily_scheduler"
    THEN CASE task.fn = "check_mileage_updates" ->
                Task("check_expired_reminders", "get_expired_repeating_reminders")
           [] task.fn = "check_expired_reminders" ->
                Task("check_time_based_notifications", "get_reminders_for_notification")
           [] OTHER ->
                [Task("daily_scheduler", "sleep_86400") EXCEPT !.slept_on = today]
    ELSE Task(task.fn, "done")

\* asyncio.sleep(60) of check_mileage_updates (line 48) and of
\* daily_scheduler (line 88), whose loop then awaits check_mileage_updates
sleep_60(t) ==
    /\ tasks[t].pc = "sleep_60"
    /\ tasks' = [tasks EXCEPT ![t] =
                   IF @.fn = "daily_scheduler"
                   THEN Task("check_mileage_updates", "sleep_60")
                   ELSE Task("check_mileage_updates", "get_cars_needing_mileage_update")]
    /\ UNCHANGED <<users_has_referral_code, sqlite_sequence, users, cars, transactions,
                   reminders, fsm, reqs, today, outbox>>

\* Car.get_cars_needing_mileage_update
get_cars_needing_mileage_update ==
    LET selected == {c \in DOMAIN cars :
                        /\ cars[c].user_id \in DOMAIN users
                        /\ users[cars[c].user_id].active_car_id = c
                        /\ cars[c].mileage # NULL
                        /\ today - cars[c].last_mileage_update_at >= MileageReminderDays}
        ids == RowsInIdOrder(selected)
    IN [i \in DOMAIN ids |-> [user_id |-> cars[ids[i]].user_id, car_id |-> ids[i]]]

\* the task goes on to its next row, or leaves the loop over the rows
AfterRow(task, rows, pc_after) ==
    IF rows = <<>>
    THEN [task EXCEPT !.rows = <<>>, !.pc = pc_after, !.slept_on = today]
    ELSE [task EXCEPT !.rows = rows]

\* check_mileage_updates lines 51-59: the query
check_mileage_updates_query(t) ==
    /\ tasks[t].fn = "check_mileage_updates"
    /\ tasks[t].pc = "get_cars_needing_mileage_update"
    /\ tasks' = [tasks EXCEPT ![t] =
                   AfterRow([@ EXCEPT !.pc = "send_mileage_reminder"],
                            get_cars_needing_mileage_update, "sleep_86400")]
    /\ UNCHANGED <<users_has_referral_code, sqlite_sequence, users, cars, transactions,
                   reminders, fsm, reqs, today, outbox>>

\* check_mileage_updates lines 56-57: send_mileage_reminder for one row
check_mileage_updates_send(t) ==
    /\ tasks[t].fn = "check_mileage_updates"
    /\ tasks[t].pc = "send_mileage_reminder"
    /\ \E delivered \in BOOLEAN :
         outbox' = send_message([kind |-> "mileage_reminder",
                                 user_id |-> Head(tasks[t].rows).user_id,
                                 id |-> Head(tasks[t].rows).car_id,
                                 days_left |-> NULL,
                                 delivered |-> delivered])
    /\ tasks' = [tasks EXCEPT ![t] = AfterRow(@, Tail(@.rows), "sleep_86400")]
    /\ UNCHANGED <<users_has_referral_code, sqlite_sequence, users, cars, transactions,
                   reminders, fsm, reqs, today>>

\* asyncio.sleep(86400) of check_mileage_updates (line 65), which then loops
\* while True, and of daily_scheduler (line 96), whose loop awaits
\* check_mileage_updates again. The sleep ends on a later day; day MaxDay
\* stands for itself and every day after it.
sleep_86400(t) ==
    /\ tasks[t].pc = "sleep_86400"
    /\ today > tasks[t].slept_on \/ today = MaxDay
    /\ tasks' = [tasks EXCEPT ![t] =
                   IF @.fn = "daily_scheduler"
                   THEN Task("check_mileage_updates", "sleep_60")
                   ELSE IF WhileTrue
                        THEN Task("check_mileage_updates", "get_cars_needing_mileage_update")
                        ELSE Return(t, @)]
    /\ UNCHANGED <<users_has_referral_code, sqlite_sequence, users, cars, transactions,
                   reminders, fsm, reqs, today, outbox>>

\* the steps of one background task
TaskStep(t) ==
    \/ sleep_60(t)
    \/ check_mileage_updates_query(t)
    \/ check_mileage_updates_send(t)
    \/ sleep_86400(t)

\* NextDay: datetime.now().date() and date('now') move to the next day.
NextDay ==
    /\ today < MaxDay
    /\ today' = today + 1
    /\ UNCHANGED <<users_has_referral_code, sqlite_sequence, users, cars, transactions,
                   reminders, fsm, reqs, tasks, outbox>>

\* main() lines 51-52 have created both tasks; the registered users have
\* their active car, whose mileage was last updated some days ago.
InitSched ==
    /\ users_has_referral_code = TRUE
    /\ sqlite_sequence = [cars |-> MaxUser, reminders |-> 0]
    /\ users = [u \in UserIds |-> [balance_nuts |-> add_car, active_car_id |-> u,
                                   referrer_id |-> NULL,
                      mileage_reminder_period |-> DefaultMileageReminderPeriod]]
    /\ \E last \in [UserIds -> {0 - MileageReminderDays, 1 - MileageReminderDays, 0}] :
         cars = [c \in UserIds |->
                   [user_id |-> c, mileage |-> 0,
                    mileage_allowance |-> DefaultMileageAllowance,
                    last_mileage_update_at |-> last[c],
                    last_allowance_update_at |-> last[c],
                    summary_filled |-> {}]]
    /\ transactions = [u \in UserIds |-> [user_id |-> u, amount |-> add_car,
                                          description |-> Description("add_car")]]
    /\ reminders = <<>>
    /\ fsm = [u \in UserIds |-> StateClear]
    /\ reqs = [r \in ReqIds |-> IdleReq]
    /\ today = 0
    /\ tasks = [t \in {"check_mileage_updates", "daily_scheduler"} |-> Task(t, "sleep_60")]
    /\ outbox = <<>>

NextSched ==
    \/ NextDay
    \/ \E t \in DOMAIN tasks : sleep_60(t)
    \/ \E t \in DOMAIN tasks : check_mileage_updates_query(t)
    \/ \E t \in DOMAIN tasks : check_mileage_updates_send(t)
    \/ \E t \in DOMAIN tasks : sleep_86400(t)

\* The background tasks of the running process: the event loop runs every
\* task that is ready, and the days go by.
SpecSched ==
    /\ InitSched
    /\ [][NextSched]_vars
    /\ WF_vars(NextDay)
    /\ WF_vars(TaskStep("check_mileage_updates"))
    /\ WF_vars(TaskStep("daily_scheduler"))

\* C9: after start-up the renewal check and the time-based threshold check
\* are eventually executed, whatever the mileage-reminder loop does.
\* Stated for the first cycle: some task eventually starts one of the two.
C9_RenewalAndThresholdChecksRun ==
    <>(\E t \in DOMAIN tasks :
         tasks[t].fn \in {"check_expired_reminders", "check_time_based_notifications"})


\* ------------------------------------------------- store failures in a job
\* Mutant: the exception leaves the coroutine.
ExceptionPropagates(t, task) == Task(task.fn, "done")

\* check_mileage_updates lines 61-65: the except clause logs the error, and
\* the loop sleeps for a day as after a pass without one
except_Exception(t, task) ==
    [task EXCEPT !.rows = <<>>, !.pc = "sleep_86400", !.slept_on = today]

\* check_mileage_updates line 53: Car.get_cars_needing_mileage_update
\* raises (aiosqlite cannot open or read the database)
check_mileage_updates_raises(t) ==
    /\ tasks[t].fn = "check_mileage_updates"
    /\ tasks[t].pc = "get_cars_needing_mileage_update"
    /\ tasks' = [tasks EXCEPT ![t].pc = "except_Exception"]
    /\ UNCHANGED <<users_has_referral_code, sqlite_sequence, users, cars, transactions,
                   reminders, fsm, reqs, today, outbox>>

\* check_mileage_updates lines 61-62, then line 65
check_mileage_updates_except(t) ==
    /\ tasks[t].fn = "check_mileage_updates"
    /\ tasks[t].pc = "except_Exception"
    /\ tasks' = [tasks EXCEPT ![t] = except_Exception(t, @)]
    /\ UNCHANGED <<users_has_referral_code, sqlite_sequence, users, cars, transactions,
                   reminders, fsm, reqs, today, outbox>>

TaskStepOrFailure(t) ==
    \/ TaskStep(t)
    \/ check_mileage_updates_raises(t)
    \/ check_mileage_updates_except(t)

NextSchedFailure ==
    \/ NextSched
    \/ \E t \in DOMAIN tasks : check_mileage_updates_raises(t)
    \/ \E t \in DOMAIN tasks : check_mileage_updates_except(t)

\* main() lines 51-52 have created both tasks; one owner, whose car is to
\* be reminded about today or in a day.
InitSchedFailure ==
    /\ users_has_referral_code = TRUE
    /\ sqlite_sequence = [cars |-> 1, reminders |-> 0]
    /\ users = (1 :> [balance_nuts |-> add_car, active_car_id |-> 1,
                      referrer_id |-> NULL,
                      mileage_reminder_period |-> DefaultMileageReminderPeriod])
    /\ \E last \in {0 - MileageReminderDays, 1 - MileageReminderDays} :
         cars = (1 :> [user_id |-> 1, mileage |-> 0,
                       mileage_allowance |-> DefaultMileageAllowance,
                       last_mileage_update_at |-> last,
                       last_allowance_update_at |-> last,
                       summary_filled |-> {}])
    /\ transactions = <<[user_id |-> 1, amount |-> add_car,
                         description |-> Description("add_car")]>>
    /\ reminders = <<>>
    /\ fsm = [u \in UserIds |-> StateClear]
    /\ reqs = [r \in ReqIds |-> IdleReq]
    /\ today = 0
    /\ tasks = [t \in {"check_mileage_updates", "daily_scheduler"} |-> Task(t, "sleep_60")]
    /\ outbox = <<>>

\* The background tasks of a process whose database may fail at any query.
SpecSchedFailure ==
    /\ InitSchedFailure
    /\ [][NextSchedFailure]_vars
    /\ WF_vars(NextDay)
    /\ WF_vars(TaskStepOrFailure("check_mileage_updates"))
    /\ WF_vars(TaskStepOrFailure("daily_scheduler"))

GetRemindersForNotificationOfAnyTracking ==
    LET selected == {k \in DOMAIN reminders :
                        /\ reminders[k].car_id \in DOMAIN cars
                        /\ reminders[k].type = "time"
                        /\ reminders[k].notification_schedule # NullText
                        /\ reminders[k].notification_schedule # <<>>}
        ids == RowsInIdOrder(selected)
    IN [i \in DOMAIN ids |->
          [reminder_id |-> ids[i],
           user_id |-> cars[reminders[ids[i]].car_id].user_id,
           last_reset_date |-> reminders[ids[i]].last_reset_date,
           interval_days |-> reminders[ids[i]].interval_days,
           notification_schedule |-> reminders[ids[i]].notification_schedule]]

\* Reminder.get_reminders_for_notification: the JOIN with cars and the WHERE
\* clause; each row carries the columns the pass reads.
get_reminders_for_notification ==
    LET selected == {k \in DOMAIN reminders :
                        /\ reminders[k].car_id \in DOMAIN cars
                        /\ reminders[k].type = "time"
                        /\ reminders[k].last_reset_date # NULL
                        /\ reminders[k].interval_days # NULL
                        /\ reminders[k].notification_schedule # NullText
                        /\ reminders[k].notification_schedule # <<>>}
        ids == RowsInIdOrder(selected)
    IN [i \in DOMAIN ids |->
          [reminder_id |-> ids[i],
           user_id |-> cars[reminders[ids[i]].car_id].user_id,
           last_reset_date |-> reminders[ids[i]].last_reset_date,
           interval_days |-> reminders[ids[i]].interval_days,
           notification_schedule |-> reminders[ids[i]].notification_schedule]]

\* Mutant: the days of the full schedule, acknowledged or not.
NotificationDaysOfFullSchedule(schedule) ==
    {InitialSchedule[i] : i \in DOMAIN InitialSchedule}

\* scheduler.py line 29: the days of the stored text; every token the
\* program writes is a string of digits
notification_days(schedule) ==
    {schedule[i] : i \in DOMAIN schedule}

\* Mutant: the pass acknowledges the day it notified about.
RemindersAfterAcknowledgingNotification(rem, days) ==
    [reminders EXCEPT ![rem.reminder_id].notification_schedule =
        SelectSeq(@, LAMBDA d : d # days)]

\* scheduler.py lines 31-41: what one row of the pass writes to table
\* reminders: nothing, notified or not, delivered or not
reminders_after_notification(rem, days) == reminders

\* scheduler.py lines 25-27
remaining_days(rem, day) == rem.last_reset_date + rem.interval_days - day

\* check_time_based_notifications lines 15-21: the query, then today
check_time_based_notifications_query(t) ==
    /\ tasks[t].fn = "check_time_based_notifications"
    /\ tasks[t].pc = "get_reminders_for_notification"
    /\ tasks' = [tasks EXCEPT ![t] =
                   IF get_reminders_for_notification = <<>>
                   THEN Return(t, @)
                   ELSE [@ EXCEPT !.pc = "for_rem",
                                  !.rows = get_reminders_for_notification,
                                  !.today = today]]
    /\ UNCHANGED <<users_has_referral_code, sqlite_sequence, users, cars, transactions,
                   reminders, fsm, reqs, today, outbox>>

\* Mutant: a delivery that failed ends the pass.
ForRemReturnsOnFailure(t, task, delivered) ==
    IF ~delivered \/ Tail(task.rows) = <<>> THEN Return(t, task)
    ELSE [task EXCEPT !.rows = Tail(@)]

\* check_time_based_notifications lines 23 and 31-41: the value
\* send_time_based_notification returns is dropped and the loop goes on
\* to its next row, or the pass ends after the last
for_rem_next(t, task, delivered) ==
    IF Tail(task.rows) = <<>> THEN Return(t, task)
    ELSE [task EXCEPT !.rows = Tail(@)]

\* check_time_based_notifications lines 23-39: one row of the loop
check_time_based_notifications_rem(t) ==
    /\ tasks[t].fn = "check_time_based_notifications"
    /\ tasks[t].pc = "for_rem"
    /\ LET rem == Head(tasks[t].rows)
           days == remaining_days(rem, tasks[t].today)
       IN /\ IF days \in notification_days(rem.notification_schedule)
             THEN \E delivered \in BOOLEAN :
                    /\ outbox' = send_message([kind |-> "time_based_notification",
                                               user_id |-> rem.user_id,
                                               id |-> rem.reminder_id,
                                               days_left |-> days,
                                               delivered |-> delivered])
                    /\ tasks' = [tasks EXCEPT ![t] = for_rem_next(t, @, delivered)]
             ELSE /\ outbox' = outbox
                  /\ tasks' = [tasks EXCEPT ![t] = for_rem_next(t, @, TRUE)]
          /\ reminders' = reminders_after_notification(rem, days)
    /\ UNCHANGED <<users_has_referral_code, sqlite_sequence, users, cars, transactions,
                   fsm, reqs, today>>

\* The rows of table reminders the program can hold: of type 'time' or of
\* another type, configured or not, with the schedule add_reminder stores,
\* one shortened by an acknowledgement, one emptied by time_notify_stop or
\* none (a row of the insurance migration); the car is there or was deleted.
ReminderRows ==
    [car_id : 1..2,
     name : {"reminder"},
     type : {"time", "mileage"},
     interval_km : {NULL}, last_reset_mileage : {NULL},
     interval_days : {NULL, SampleIntervalDays},
     last_reset_date : {NULL, 0},
     is_repeating : {FALSE},
     target_mileage : {NULL}, target_date : {NULL},
     notification_schedule : {NullText, <<>>, InitialSchedule, <<7, 1>>}]

\* One pass of check_time_based_notifications on some day over a table of
\* reminders; car 1 exists, car 2 was deleted by Car.delete_car.
InitNotify ==
    /\ users_has_referral_code = TRUE
    /\ sqlite_sequence = [cars |-> 2, reminders |-> MaxReminder]
    /\ users = (1 :> [balance_nuts |-> add_car, active_car_id |-> 1,
                      referrer_id |-> NULL,
                      mileage_reminder_period |-> DefaultMileageReminderPeriod])
    /\ cars = (1 :> [user_id |-> 1, mileage |-> 0,
                     mileage_allowance |-> DefaultMileageAllowance,
                     last_mileage_update_at |-> 0,
                     last_allowance_update_at |-> 0,
                     summary_filled |-> {}])
    /\ transactions = <<[user_id |-> 1, amount |-> add_car,
                         description |-> Description("add_car")]>>
    /\ reminders \in [1..MaxReminder -> ReminderRows]
    /\ fsm = [u \in UserIds |-> StateClear]
    /\ reqs = [r \in ReqIds |-> IdleReq]
    /\ today \in 0..MaxDay
    /\ tasks = [t \in {"check_time_based_notifications"} |->
                  Task(t, "get_reminders_for_notification")]
    /\ outbox = <<>>

NextNotify ==
    \/ \E t \in DOMAIN tasks : check_time_based_notifications_query(t)
    \/ \E t \in DOMAIN tasks : check_time_based_notifications_rem(t)

SpecNotify == InitNotify /\ [][NextNotify]_vars

\* The NotifyTimeTrackingDue requests for tracking k among the first n
\* messages.
RECURSIVE Emitted(_, _)
Emitted(k, n) ==
    IF n = 0 THEN 0
    ELSE Emitted(k, n - 1)
         + (IF outbox[n].kind = "time_based_notification" /\ outbox[n].id = k
            THEN 1 ELSE 0)

\* The condition of the claim: a TimeBased tracking with a start date, an
\* interval and a non-empty schedule that holds its remaining days.
DueOnSchedule(k) ==
    /\ reminders[k].type = "time"
    /\ reminders[k].last_reset_date # NULL
    /\ reminders[k].interval_days # NULL
    /\ reminders[k].notification_schedule \notin {NullText, <<>>}
    /\ \E i \in DOMAIN reminders[k].notification_schedule :
         reminders[k].notification_schedule[i] =
            reminders[k].last_reset_date + reminders[k].interval_days - today

PassDone == \A t \in DOMAIN tasks : tasks[t].pc = "done"

DaysLeftIsRemainingDays ==
    \A n \in DOMAIN outbox :
        outbox[n].kind = "time_based_notification" =>
            outbox[n].days_left = reminders[outbox[n].id].last_reset_date
                                  + reminders[outbox[n].id].interval_days - today

C11_PassKeepsTrackings == [][reminders' = reminders]_vars

\* A finished pass with one notification delivered and one that failed.
C11_Witness ==
    /\ PassDone
    /\ \E n \in DOMAIN outbox :
         outbox[n].kind = "time_based_notification" /\ outbox[n].delivered
    /\ \E n \in DOMAIN outbox :
         outbox[n].kind = "time_based_notification" /\ ~outbox[n].delivered

GetExpiredReminders ==
    LET selected == {k \in DOMAIN reminders :
                        /\ reminders[k].car_id \in DOMAIN cars
                        /\ reminders[k].type = "time"
                        /\ reminders[k].last_reset_date # NULL
                        /\ reminders[k].interval_days # NULL
                        /\ today - reminders[k].last_reset_date
                              >= reminders[k].interval_days}
        ids == RowsInIdOrder(selected)
    IN [i \in DOMAIN ids |->
          [reminder_id |-> ids[i],
           user_id |-> cars[reminders[ids[i]].car_id].user_id]]

\* Reminder.get_expired_repeating_reminders: julianday('now') minus the
\* julianday of a date is at least a whole number exactly when the days
\* between the two dates are
get_expired_repeating_reminders ==
    LET selected == {k \in DOMAIN reminders :
                        /\ reminders[k].car_id \in DOMAIN cars
                        /\ reminders[k].type = "time"
                        /\ reminders[k].is_repeating = TRUE
                        /\ reminders[k].last_reset_date # NULL
                        /\ reminders[k].interval_days # NULL
                        /\ today - reminders[k].last_reset_date
                              >= reminders[k].interval_days}
        ids == RowsInIdOrder(selected)
    IN [i \in DOMAIN ids |->
          [reminder_id |-> ids[i],
           user_id |-> cars[reminders[ids[i]].car_id].user_id]]

\* Mutant: a renewal restarts the tracking today.
ResetTimeReminderToToday(reminder_id, start_date, repeat) ==
    IF reminder_id \in DOMAIN reminders
    THEN [reminders EXCEPT ![reminder_id].last_reset_date = today]
    ELSE reminders

\* Mutant: a reset without repeat also puts the schedule back.
ResetTimeReminderAndSchedule(reminder_id, start_date, repeat) ==
    IF reminder_id \notin DOMAIN reminders THEN reminders
    ELSE IF repeat
    THEN IF /\ reminders[reminder_id].last_reset_date # NULL
            /\ reminders[reminder_id].interval_days # NULL
         THEN [reminders EXCEPT ![reminder_id].last_reset_date =
                                   @ + reminders[reminder_id].interval_days]
         ELSE reminders
    ELSE [reminders EXCEPT ![reminder_id].last_reset_date = start_date,
                           ![reminder_id].notification_schedule = InitialSchedule]

\* Reminder.reset_time_reminder: with repeat the start date moves on by the
\* interval, in SQL, from the row as it is now; without, it is start_date
reset_time_reminder(reminder_id, start_date, repeat) ==
    IF reminder_id \notin DOMAIN reminders THEN reminders
    ELSE IF repeat
    THEN IF /\ reminders[reminder_id].last_reset_date # NULL
            /\ reminders[reminder_id].interval_days # NULL
         THEN [reminders EXCEPT ![reminder_id].last_reset_date =
                                   @ + reminders[reminder_id].interval_days]
         ELSE reminders
    ELSE [reminders EXCEPT ![reminder_id].last_reset_date = start_date]

\* check_expired_reminders lines 69-73 and 79-80: the query
check_expired_reminders_query(t) ==
    /\ tasks[t].fn = "check_expired_reminders"
    /\ tasks[t].pc = "get_expired_repeating_reminders"
    /\ tasks' = [tasks EXCEPT ![t] =
                   IF get_expired_repeating_reminders = <<>>
                   THEN Return(t, @)
                   ELSE [@ EXCEPT !.pc = "reset_time_reminder",
                                  !.rows = get_expired_repeating_reminders]]
    /\ UNCHANGED <<users_has_referral_code, sqlite_sequence, users, cars, transactions,
                   reminders, fsm, reqs, today, outbox>>

\* check_expired_reminders line 76: Reminder.reset_time_reminder of one row
check_expired_reminders_reset(t) ==
    /\ tasks[t].fn = "check_expired_reminders"
    /\ tasks[t].pc = "reset_time_reminder"
    /\ reminders' = reset_time_reminder(Head(tasks[t].rows).reminder_id, NULL, TRUE)
    /\ tasks' = [tasks EXCEPT ![t].pc = "send_renewal_notification"]
    /\ UNCHANGED <<users_has_referral_code, sqlite_sequence, users, cars, transactions,
                   fsm, reqs, today, outbox>>

\* check_expired_reminders line 78: send_renewal_notification of that row
check_expired_reminders_send(t) ==
    /\ tasks[t].fn = "check_expired_reminders"
    /\ tasks[t].pc = "send_renewal_notification"
    /\ \E delivered \in BOOLEAN :
         outbox' = send_message([kind |-> "renewal_notification",
                                 user_id |-> Head(tasks[t].rows).user_id,
                                 id |-> Head(tasks[t].rows).reminder_id,
                                 days_left |-> NULL,
                                 delivered |-> delivered])
    /\ tasks' = [tasks EXCEPT ![t] =
                   IF Tail(@.rows) = <<>> THEN Return(t, @)
                   ELSE [@ EXCEPT !.rows = Tail(@), !.pc = "reset_time_reminder"]]
    /\ UNCHANGED <<users_has_referral_code, sqlite_sequence, users, cars, transactions,
                   reminders, fsm, reqs, today>>

\* The rows the renewal query tells apart: repeating or not, of type 'time'
\* or not, not configured, started SampleIntervalDays ago or today, with
\* the schedule as created, shortened or emptied; the car there or deleted.
RenewalRows ==
    {[car_id |-> c, name |-> "reminder", type |-> ty,
      interval_km |-> NULL, last_reset_mileage |-> NULL,
      interval_days |-> conf[1], last_reset_date |-> conf[2],
      is_repeating |-> rep,
      target_mileage |-> NULL, target_date |-> NULL,
      notification_schedule |-> s] :
        c \in 1..2, ty \in {"time", "mileage"}, rep \in BOOLEAN,
        conf \in {<<NULL, NULL>>, <<SampleIntervalDays, 0 - SampleIntervalDays>>,
                  <<SampleIntervalDays, 0>>},
        s \in {InitialSchedule, <<7, 1>>, <<>>}}

\* One pass of check_expired_reminders on some day over a table of
\* reminders; car 1 exists, car 2 was deleted by Car.delete_car.
InitRenew ==
    /\ users_has_referral_code = TRUE
    /\ sqlite_sequence = [cars |-> 2, reminders |-> MaxReminder]
    /\ users = (1 :> [balance_nuts |-> add_car, active_car_id |-> 1,
                      referrer_id |-> NULL,
                      mileage_reminder_period |-> DefaultMileageReminderPeriod])
    /\ cars = (1 :> [user_id |-> 1, mileage |-> 0,
                     mileage_allowance |-> DefaultMileageAllowance,
                     last_mileage_update_at |-> 0,
                     last_allowance_update_at |-> 0,
                     summary_filled |-> {}])
    /\ transactions = <<[user_id |-> 1, amount |-> add_car,
                         description |-> Description("add_car")]>>
    /\ reminders \in [1..MaxReminder -> RenewalRows]
    /\ fsm = [u \in UserIds |-> StateClear]
    /\ reqs = [r \in ReqIds |-> IdleReq]
    /\ today \in 0..MaxDay
    /\ tasks = [t \in {"check_expired_reminders"} |->
                  Task(t, "get_expired_repeating_reminders")]
    /\ outbox = <<>>

NextRenew ==
    \/ \E t \in DOMAIN tasks : check_expired_reminders_query(t)
    \/ \E t \in DOMAIN tasks : check_expired_reminders_reset(t)
    \/ \E t \in DOMAIN tasks : check_expired_reminders_send(t)

SpecRenew == InitRenew /\ [][NextRenew]_vars

\* The step of task t that renews the tracking at the head of its rows.
RenewalStep(t) ==
    /\ tasks[t].fn = "check_expired_reminders"
    /\ tasks[t].pc = "reset_time_reminder"
    /\ tasks'[t].pc = "send_renewal_notification"

\* C12: a renewal sets last_reset_date to the old last_reset_date plus
\* interval_days, whatever the day of the sweep, and leaves interval_days and
\* is_repeating as they were.
C12_RenewalAdvancesByInterval ==
    [][\A t \in DOMAIN tasks :
         RenewalStep(t) =>
            LET k == Head(tasks[t].rows).reminder_id IN
            /\ reminders'[k].last_reset_date =
                  reminders[k].last_reset_date + reminders[k].interval_days
            /\ reminders'[k].interval_days = reminders[k].interval_days
            /\ reminders'[k].is_repeating = reminders[k].is_repeating]_vars

\* A tracking just renewed on a day that is not its new start date.
C12_Witness ==
    \E t \in DOMAIN tasks :
        /\ tasks[t].pc = "send_renewal_notification"
        /\ reminders[Head(tasks[t].rows).reminder_id].last_reset_date # today
        /\ reminders[Head(tasks[t].rows).reminder_id].last_reset_date
              = 0 - SampleIntervalDays + SampleIntervalDays

\* C13: after a renewal the tracking's schedule is the full configured
\* schedule, whatever had been acknowledged or stopped before.
C13_RenewalRestoresSchedule ==
    [][\A t \in DOMAIN tasks :
         RenewalStep(t) =>
            reminders'[Head(tasks[t].rows).reminder_id].notification_schedule
               = InitialSchedule]_vars

\* C14: no step of the renewal sweep changes or deletes a tracking that is
\* not repeating, nor emits a renewal notification for it.
C14_NonRepeatingUntouched ==
    [][\A k \in DOMAIN reminders :
         reminders[k].is_repeating = FALSE =>
            /\ k \in DOMAIN reminders'
            /\ reminders'[k] = reminders[k]
            /\ outbox' # outbox => outbox'[Len(outbox')].id # k]_vars

\* A finished sweep over a due tracking that does not repeat and one that
\* does and was renewed.
C14_Witness ==
    /\ PassDone
    /\ \E k \in DOMAIN reminders :
         /\ reminders[k].is_repeating = FALSE
         /\ reminders[k].type = "time"
         /\ reminders[k].car_id \in DOMAIN cars
         /\ reminders[k].last_reset_date # NULL
         /\ today - reminders[k].last_reset_date >= reminders[k].interval_days
    /\ \E n \in DOMAIN outbox : outbox[n].kind = "renewal_notification"

\* ------------------------------------------- notification buttons
\* The thresholds a notification's 'Спасибо!' button can carry.
AckDays == {7, 3, 1}

\* Mutant: acknowledging a threshold drops the earlier ones with it.
ScheduleListRemoveFrom(schedule_list, day) ==
    SelectSeq(schedule_list, LAMBDA d : d < day)

\* reminders_handlers.py lines 780-784: split, list.remove of the first
\* occurrence if there is one, join
schedule_list_remove(schedule_list, day) ==
    IF \E i \in DOMAIN schedule_list : schedule_list[i] = day
    THEN LET i == CHOOSE i \in DOMAIN schedule_list :
                     /\ schedule_list[i] = day
                     /\ \A j \in 1..(i - 1) : schedule_list[j] # day
         IN SubSeq(schedule_list, 1, i - 1)
            \o SubSeq(schedule_list, i + 1, Len(schedule_list))
    ELSE schedule_list

\* Reminder.update_reminder_details with details {"notification_schedule": v}:
\* an UPDATE that matches no row when the reminder is gone
update_reminder_details(reminder_id, notification_schedule) ==
    IF reminder_id \in DOMAIN reminders
    THEN [reminders EXCEPT ![reminder_id].notification_schedule = notification_schedule]
    ELSE reminders

\* process_time_notify_stop: one UPDATE, then the confirmation message
process_time_notify_stop(r) ==
    /\ reqs[r] = IdleReq
    /\ \E reminder_id \in 1..MaxReminder :
         /\ reminders' = update_reminder_details(reminder_id, <<>>)
         /\ reqs' = [reqs EXCEPT ![r] =
                       [IdleReq EXCEPT !.handler = "process_time_notify_stop",
                                       !.pc = "done",
                                       !.user_id = 1,
                                       !.reminder_id = reminder_id]]
    /\ UNCHANGED <<users_has_referral_code, sqlite_sequence, users, cars, transactions,
                   fsm, today, tasks, outbox>>

\* process_time_notify_ack lines 770-784: Reminder.get_reminder, and the
\* new schedule computed from the row that was read
process_time_notify_ack_get(r) ==
    /\ reqs[r] = IdleReq
    /\ \E reminder_id \in 1..MaxReminder, day_to_remove \in AckDays :
         reqs' = [reqs EXCEPT ![r] =
                    [IdleReq EXCEPT
                       !.handler = "process_time_notify_ack",
                       !.pc = IF \/ reminder_id \notin DOMAIN reminders
                                 \/ reminders[reminder_id].notification_schedule
                                       \in {NullText, <<>>}
                              THEN "done" ELSE "update_reminder_details",
                       !.user_id = 1,
                       !.reminder_id = reminder_id,
                       !.day_to_remove = day_to_remove,
                       !.schedule_list =
                           IF \/ reminder_id \notin DOMAIN reminders
                              \/ reminders[reminder_id].notification_schedule
                                    \in {NullText, <<>>}
                           THEN <<>>
                           ELSE schedule_list_remove(
                                   reminders[reminder_id].notification_schedule,
                                   day_to_remove)]]
    /\ UNCHANGED <<users_has_referral_code, sqlite_sequence, users, cars, transactions,
                   reminders, fsm, today, tasks, outbox>>

\* process_time_notify_ack lines 785-794: the UPDATE with the new schedule
process_time_notify_ack_update(r) ==
    /\ reqs[r].handler = "process_time_notify_ack"
    /\ reqs[r].pc = "update_reminder_details"
    /\ reminders' = update_reminder_details(reqs[r].reminder_id, reqs[r].schedule_list)
    /\ reqs' = [reqs EXCEPT ![r].pc = "done", ![r].schedule_list = <<>>]
    /\ UNCHANGED <<users_has_referral_code, sqlite_sequence, users, cars, transactions,
                   fsm, today, tasks, outbox>>

\* Time trackings as Reminder.add_reminder creates them, started on day 0,
\* and one without a schedule.
AckRows ==
    {[car_id |-> 1, name |-> "reminder", type |-> "time",
      interval_km |-> NULL, last_reset_mileage |-> NULL,
      interval_days |-> SampleIntervalDays, last_reset_date |-> 0,
      is_repeating |-> FALSE,
      target_mileage |-> NULL, target_date |-> NULL,
      notification_schedule |-> s] : s \in {InitialSchedule, NullText}}

\* Button presses, each its own task, while one pass of
\* check_time_based_notifications runs on some day.
InitAck ==
    /\ users_has_referral_code = TRUE
    /\ sqlite_sequence = [cars |-> 1, reminders |-> MaxReminder]
    /\ users = (1 :> [balance_nuts |-> add_car, active_car_id |-> 1,
                      referrer_id |-> NULL,
                      mileage_reminder_period |-> DefaultMileageReminderPeriod])
    /\ cars = (1 :> [user_id |-> 1, mileage |-> 0,
                     mileage_allowance |-> DefaultMileageAllowance,
                     last_mileage_update_at |-> 0,
                     last_allowance_update_at |-> 0,
                     summary_filled |-> {}])
    /\ transactions = <<[user_id |-> 1, amount |-> add_car,
                         description |-> Description("add_car")]>>
    /\ reminders \in [1..MaxReminder -> AckRows]
    /\ fsm = [u \in UserIds |-> StateClear]
    /\ reqs = [r \in ReqIds |-> IdleReq]
    /\ today \in 0..MaxDay
    /\ tasks = [t \in {"check_time_based_notifications"} |->
                  Task(t, "get_reminders_for_notification")]
    /\ outbox = <<>>

NextAck ==
    \/ \E r \in ReqIds : process_time_notify_stop(r)
    \/ \E r \in ReqIds : process_time_notify_ack_get(r)
    \/ \E r \in ReqIds : process_time_notify_ack_update(r)
    \/ \E t \in DOMAIN tasks : check_time_based_notifications_query(t)
    \/ \E t \in DOMAIN tasks : check_time_based_notifications_rem(t)

SpecAck == InitAck /\ [][NextAck]_vars

\* The same presses handled one after the other: a handler starts only
\* when no other is between its read and its write.
NoneInFlight == \A r \in ReqIds : reqs[r].pc \in {"idle", "done"}

NextAckSeq ==
    \/ \E r \in ReqIds : NoneInFlight /\ process_time_notify_stop(r)
    \/ \E r \in ReqIds : NoneInFlight /\ process_time_notify_ack_get(r)
    \/ \E r \in ReqIds : process_time_notify_ack_update(r)

SpecAckSeq == InitAck /\ [][NextAckSeq]_vars

\* C15: in every interleaving of acknowledgments and stops the schedule of
\* a tracking only shrinks: no step brings back a threshold that was
\* removed, nor refills a schedule that was emptied.
C15_ScheduleOnlyShrinks ==
    [][\A k \in DOMAIN reminders :
         notification_days(reminders'[k].notification_schedule)
            \subseteq notification_days(reminders[k].notification_schedule)]_vars

\* The step in which request r writes its acknowledgment.
AckStep(r) ==
    /\ reqs[r].handler = "process_time_notify_ack"
    /\ reqs[r].pc = "update_reminder_details"
    /\ reqs'[r].pc = "done"

\* C16: an acknowledgment handled alone removes exactly its threshold from
\* the schedule of its tracking: the other thresholds stay, in order, and so
\* do the other fields and the other trackings; one that finds no schedule
\* writes nothing.  Acknowledging the same threshold again changes nothing,
\* and acknowledging two thresholds gives the same schedule in either order.
C16_AckRemovesExactlyItsDay ==
    [][\A r \in ReqIds :
         /\ AckStep(r) =>
              LET k == reqs[r].reminder_id
                  d == reqs[r].day_to_remove
                  old == reminders[k].notification_schedule
              IN /\ reminders'[k].notification_schedule
                       = SelectSeq(old, LAMBDA x : x # d)
                 /\ [reminders'[k] EXCEPT !.notification_schedule = old]
                       = reminders[k]
                 /\ \A j \in DOMAIN reminders \ {k} : reminders'[j] = reminders[j]
                 /\ DOMAIN reminders' = DOMAIN reminders
                 /\ schedule_list_remove(reminders'[k].notification_schedule, d)
                       = reminders'[k].notification_schedule
                 /\ \A e \in AckDays :
                       schedule_list_remove(schedule_list_remove(old, d), e)
                          = schedule_list_remove(schedule_list_remove(old, e), d)
         /\ (reqs[r].pc = "idle" /\ reqs'[r].handler = "process_time_notify_ack")
               => reminders' = reminders]_vars

\* Two different thresholds of one tracking acknowledged one after the
\* other: the third is what is left.
C16_Witness ==
    \E r1, r2 \in ReqIds :
        /\ reqs[r1].handler = "process_time_notify_ack" /\ reqs[r1].pc = "done"
        /\ reqs[r2].handler = "process_time_notify_ack" /\ reqs[r2].pc = "done"
        /\ reqs[r1].reminder_id = reqs[r2].reminder_id
        /\ reqs[r1].day_to_remove = 7 /\ reqs[r2].day_to_remove = 1
        /\ reminders[reqs[r1].reminder_id].notification_schedule = <<3>>

\* A press of 'Не напоминать' for tracking k has been handled to its end.
StopCompleted(k) ==
    \E r \in ReqIds :
        /\ reqs[r].handler = "process_time_notify_stop"
        /\ reqs[r].pc = "done"
        /\ reqs[r].reminder_id = k

\* C17: the step that completes a stop leaves the tracking's schedule empty,
\* and a notification pass that starts after a stop of tracking k has
\* completed emits nothing for k.  A pass emits for exactly the rows of its
\* query whose remaining days are on the schedule the query read, so the
\* pass emits for k when its query returns such a row for k.
C17_NoNotificationAfterStop ==
    [][\A k \in DOMAIN reminders :
         /\ (~StopCompleted(k) /\ StopCompleted(k)')
               => reminders'[k].notification_schedule = <<>>
         /\ \A t \in DOMAIN tasks :
              (/\ StopCompleted(k)
               /\ tasks[t].pc = "get_reminders_for_notification"
               /\ tasks'[t].pc # "get_reminders_for_notification")
              => \A i \in DOMAIN tasks'[t].rows :
                    tasks'[t].rows[i].reminder_id = k
                    => remaining_days(tasks'[t].rows[i], tasks'[t].today)
                          \notin notification_days(
                                    tasks'[t].rows[i].notification_schedule)]_vars

\* --------------------------------------------------- reminder period
\* What a user can send as the new period: a text that is not a number,
\* 0, or a number of days.
PeriodInputs == {NonDigit} \cup (0..MaxPeriod)

\* start_reminder_period_update
start_reminder_period_update(u) ==
    /\ fsm' = [fsm EXCEPT ![u].state = "set_reminder_period"]
    /\ UNCHANGED <<users_has_referral_code, sqlite_sequence, users, cars, transactions,
                   reminders, reqs, today, tasks, outbox>>

\* User.set_mileage_reminder_period: an UPDATE of one column
set_mileage_reminder_period(user_id, days) ==
    IF user_id \in DOMAIN users
    THEN [users EXCEPT ![user_id].mileage_reminder_period = days]
    ELSE users

\* process_reminder_period_update: a text that is not a number of at least
\* one day is refused and the state stays
process_reminder_period_update(u) ==
    /\ fsm[u].state = "set_reminder_period"
    /\ \E text \in PeriodInputs :
         IF text = NonDigit \/ text < 1
         THEN UNCHANGED <<users, fsm>>
         ELSE /\ users' = set_mileage_reminder_period(u, text)
              /\ fsm' = [fsm EXCEPT ![u] = StateClear]
    /\ UNCHANGED <<users_has_referral_code, sqlite_sequence, cars, transactions,
                   reminders, reqs, today, tasks, outbox>>

\* The background tasks while users set their reminder periods.
NextPeriod ==
    \/ NextSched
    \/ \E u \in UserIds : start_reminder_period_update(u)
    \/ \E u \in UserIds : process_reminder_period_update(u)

SpecPeriod == InitSched /\ [][NextPeriod]_vars

\* The vehicles the claim has a pass select.
DueByOwnersPeriod ==
    {c \in DOMAIN cars :
        /\ cars[c].mileage # NULL
        /\ cars[c].user_id \in DOMAIN users
        /\ users[cars[c].user_id].active_car_id = c
        /\ today - cars[c].last_mileage_update_at
              >= users[cars[c].user_id].mileage_reminder_period}

\* C18: the query of a mileage-reminder pass returns exactly the vehicles
\* with a known mileage that are their owner's active vehicle and whose
\* last mileage report is at least the owner's reminder period ago.
C18_SelectedByOwnersPeriod ==
    [][\A t \in DOMAIN tasks :
         (/\ tasks[t].pc = "get_cars_needing_mileage_update"
          /\ tasks'[t].pc # "get_cars_needing_mileage_update")
         => {tasks'[t].rows[i].car_id : i \in DOMAIN tasks'[t].rows}
               = DueByOwnersPeriod]_vars

\* ------------------------------------------------ mileage reminders
\* The mileage reminders for car c among the first n messages sent.
RECURSIVE MileageDue(_, _)
MileageDue(c, n) ==
    IF n = 0 THEN 0
    ELSE MileageDue(c, n - 1)
         + (IF outbox[n].kind = "mileage_reminder" /\ outbox[n].id = c
            THEN 1 ELSE 0)

\* C19: a vehicle gets at most one mileage reminder in each 24-hour cycle
\* of the running process: by the end of day d no more than d + 1.
C19_OneMileageReminderPerCycle ==
    \A c \in DOMAIN cars :
        today < MaxDay => MileageDue(c, Len(outbox)) <= today + 1

\* ------------------------------------------------------------- snooze
\* Mutant: the snooze restarts the allowance period as well.
SnoozeAndRestartAllowance(car_id) ==
    IF car_id \in DOMAIN cars
    THEN [cars EXCEPT ![car_id].last_mileage_update_at = today,
                      ![car_id].last_allowance_update_at = today]
    ELSE cars

\* Car.snooze_mileage_update: UPDATE cars SET last_mileage_update_at =
\* date('now') WHERE car_id = ?
snooze_mileage_update(car_id) ==
    IF car_id \in DOMAIN cars
    THEN [cars EXCEPT ![car_id].last_mileage_update_at = today]
    ELSE cars

\* snooze_reminder, the only caller of Car.snooze_mileage_update; the module
\* that holds it is switched off (its router is not included by main)
snooze_reminder(car_id) ==
    /\ cars' = snooze_mileage_update(car_id)
    /\ UNCHANGED <<users_has_referral_code, sqlite_sequence, users, transactions,
                   reminders, fsm, reqs, today, tasks, outbox>>

\* Every user has an active car, last reported a week ago or today; the
\* mileage-reminder loop has just started.
InitSnooze ==
    /\ users_has_referral_code = TRUE
    /\ sqlite_sequence = [cars |-> MaxUser, reminders |-> 0]
    /\ users = [u \in UserIds |-> [balance_nuts |-> add_car, active_car_id |-> u,
                                   referrer_id |-> NULL,
                                   mileage_reminder_period |-> DefaultMileageReminderPeriod]]
    /\ \E last \in [UserIds -> {0 - MileageReminderDays, 0}] :
         cars = [c \in UserIds |->
                   [user_id |-> c, mileage |-> 0,
                    mileage_allowance |-> DefaultMileageAllowance,
                    last_mileage_update_at |-> last[c],
                    last_allowance_update_at |-> last[c],
                    summary_filled |-> {}]]
    /\ transactions = [u \in UserIds |-> [user_id |-> u, amount |-> add_car,
                                          description |-> Description("add_car")]]
    /\ reminders = <<>>
    /\ fsm = [u \in UserIds |-> StateClear]
    /\ reqs = [r \in ReqIds |-> IdleReq]
    /\ today = 0
    /\ tasks = [t \in {"check_mileage_updates"} |-> Task(t, "sleep_60")]
    /\ outbox = <<>>

\* The mileage-reminder loop with the snooze button switched on.
NextSnooze ==
    \/ NextSched
    \/ \E car_id \in 1..MaxUser : snooze_reminder(car_id)

SpecSnooze == InitSnooze /\ [][NextSnooze]_vars

\* C20: a snooze sets last_mileage_update_at of its car to today and changes
\* nothing else: not the mileage, the allowance or the allowance date of the
\* car, not another car, no balance and no transaction.
C20_SnoozeChangesOnlyReportDate ==
    [][/\ users' = users
       /\ transactions' = transactions
       /\ cars' # cars =>
            \E c \in DOMAIN cars :
                cars' = [cars EXCEPT ![c].last_mileage_update_at = today]]_vars

\* A snoozed car: reported today, with the allowance date it had.
C20_Witness ==
    \E c \in DOMAIN cars :
        /\ cars[c].last_mileage_update_at = today
        /\ cars[c].last_allowance_update_at < today

\* --------------------------------------------------------------- menus
\* int(a / b) for b > 0: Python's true division, truncated towards zero
TruncDiv(a, b) == IF a >= 0 THEN a \div b ELSE 0 - ((0 - a) \div b)

\* str * n and the like: a negative count gives the empty string
Times(n) == IF n < 0 THEN 0 ELSE n

\* menus._is_reminder_configured
is_reminder_configured(reminder) ==
    IF reminder.type \in {"mileage", "mileage_interval"}
    THEN reminder.interval_km # NULL /\ reminder.last_reset_mileage # NULL
    ELSE IF reminder.type = "exact_mileage"
    THEN reminder.target_mileage # NULL
    ELSE IF reminder.type = "time"
    THEN \/ reminder.interval_days # NULL /\ reminder.last_reset_date # NULL
         \/ reminder.target_date # NULL
    ELSE FALSE

\* A line of the main menu without a progress bar of its own.
PlainLine(line) ==
    [line |-> line, remaining |-> NULL, num |-> 0, den |-> 1,
     filled |-> 0, empty |-> 0]

\* menus.py lines 58-76, 85-105 and 128-140: progress_percentage = num / den
\* (ZeroDivisionError when den is 0), progress = int(progress_percentage *
\* 10), the full red bar when nothing remains, else progress segments of
\* the colour and 10 - progress dashes
ProgressLine(line, due_line, remaining, num, den) ==
    IF den = 0 THEN PlainLine("ZeroDivisionError")
    ELSE IF remaining <= 0
    THEN [line |-> due_line, remaining |-> NULL, num |-> num, den |-> den,
          filled |-> 10, empty |-> 0]
    ELSE [line |-> line, remaining |-> remaining, num |-> num, den |-> den,
          filled |-> Times(TruncDiv(10 * num, den)),
          empty |-> Times(10 - TruncDiv(10 * num, den))]

\* _get_main_menu_content lines 47-143: the line of one reminder
main_menu_line(rem, mileage) ==
    IF rem.type \in {"mileage", "mileage_interval"}
    THEN IF is_reminder_configured(rem) /\ mileage # NULL
         THEN ProgressLine("reminder_line", "reminder_line_due_full_bar",
                           rem.last_reset_mileage + rem.interval_km - mileage,
                           rem.interval_km
                              - (rem.last_reset_mileage + rem.interval_km - mileage),
                           rem.interval_km)
         ELSE PlainLine("reminder_line_empty_km")
    ELSE IF rem.type = "exact_mileage"
    THEN IF is_reminder_configured(rem) /\ mileage # NULL
         THEN ProgressLine("reminder_line", "reminder_line_due_full_bar",
                           rem.target_mileage - mileage, mileage, rem.target_mileage)
         ELSE PlainLine("reminder_line_empty_km")
    ELSE IF rem.type = "time"
    THEN IF is_reminder_configured(rem)
         THEN IF rem.target_date # NULL
              THEN [line |-> "insurance_line",
                    remaining |-> IF rem.target_date - today < 0 THEN 0
                                  ELSE rem.target_date - today,
                    num |-> 0, den |-> 1, filled |-> 0, empty |-> 10]
              ELSE IF rem.interval_days \notin {NULL, 0} /\ rem.last_reset_date # NULL
              THEN ProgressLine("insurance_line", "insurance_line_expired_full_bar",
                                rem.last_reset_date + rem.interval_days - today,
                                rem.interval_days
                                   - (rem.last_reset_date + rem.interval_days - today),
                                rem.interval_days)
              ELSE PlainLine("none")
         ELSE PlainLine("insurance_line_empty")
    ELSE PlainLine("none")

\* Reminder.get_reminders_for_car, in id order
get_reminders_for_car(car_id) ==
    RowsInIdOrder({k \in DOMAIN reminders : reminders[k].car_id = car_id})

\* menus.show_main_menu: Car.get_active_car, the lines of the reminders of
\* the car, then the message; an exception in a line ends the handler
show_main_menu(r, u) ==
    /\ reqs[r] = IdleReq
    /\ users' = get_active_car_users(u)
    /\ LET car_id == get_active_car(u)
           ids == IF car_id = NULL THEN <<>> ELSE get_reminders_for_car(car_id)
           lines == [i \in DOMAIN ids |->
                       main_menu_line(reminders[ids[i]], cars[car_id].mileage)
                          @@ [reminder_id |-> ids[i]]]
       IN IF \E i \in DOMAIN lines : lines[i].line = "ZeroDivisionError"
          THEN /\ reqs' = [reqs EXCEPT ![r] =
                             [IdleReq EXCEPT !.handler = "show_main_menu",
                                             !.pc = "ZeroDivisionError",
                                             !.user_id = u, !.car_id = car_id]]
               /\ outbox' = outbox
          ELSE /\ reqs' = [reqs EXCEPT ![r] =
                             [IdleReq EXCEPT !.handler = "show_main_menu",
                                             !.pc = "done",
                                             !.user_id = u, !.car_id = car_id]]
               /\ outbox' = send_message(
                     [kind |-> IF car_id = NULL THEN "add_car_first" ELSE "main_menu",
                      user_id |-> u, id |-> car_id, days_left |-> NULL,
                      delivered |-> TRUE, lines |-> lines])
    /\ UNCHANGED <<users_has_referral_code, sqlite_sequence, cars, transactions,
                   reminders, fsm, today, tasks>>

\* _get_mileage_tracking_menu_content lines 67-90: the value of the
\* remaining line of a mileage-interval tracking, NULL for 'not set'
mileage_tracking_remaining_val(reminder, mileage) ==
    IF /\ reminder.last_reset_mileage # NULL
       /\ reminder.interval_km # NULL
       /\ mileage # NULL
    THEN IF reminder.last_reset_mileage + reminder.interval_km - mileage < 0 THEN 0
         ELSE reminder.last_reset_mileage + reminder.interval_km - mileage
    ELSE NULL

\* manage_reminder_menu for a tracking that is neither 'time' nor
\* 'exact_mileage': Reminder.get_reminder, Car.get_active_car, the menu
manage_reminder_menu(r, u, reminder_id) ==
    /\ reqs[r] = IdleReq
    /\ reminder_id \in DOMAIN reminders
    /\ reminders[reminder_id].type \notin {"time", "exact_mileage"}
    /\ get_active_car(u) # NULL
    /\ users' = get_active_car_users(u)
    /\ fsm' = [fsm EXCEPT ![u] = StateClear]
    /\ reqs' = [reqs EXCEPT ![r] =
                  [IdleReq EXCEPT !.handler = "manage_reminder_menu", !.pc = "done",
                                  !.user_id = u, !.reminder_id = reminder_id]]
    /\ outbox' = send_message(
          [kind |-> "mileage_tracking_detail_menu", user_id |-> u,
           id |-> reminder_id, days_left |-> NULL, delivered |-> TRUE,
           remaining_val |-> mileage_tracking_remaining_val(
                                reminders[reminder_id],
                                cars[get_active_car(u)].mileage)])
    /\ UNCHANGED <<users_has_referral_code, sqlite_sequence, cars, transactions,
                   reminders, today, tasks>>

\* The trackings the menus tell apart, with the numbers the input checks
\* accept (str.isdigit: 0 and up) and the dates around today.
MenuRows ==
    {[car_id |-> 1, name |-> "reminder", type |-> "mileage",
      interval_km |-> i, last_reset_mileage |-> l,
      interval_days |-> NULL, last_reset_date |-> NULL, is_repeating |-> FALSE,
      target_mileage |-> NULL, target_date |-> NULL,
      notification_schedule |-> InitialSchedule] :
        i \in {NULL} \cup (0..MaxKm), l \in {NULL} \cup (0..MaxKm)}
    \cup
    {[car_id |-> 1, name |-> "reminder", type |-> "exact_mileage",
      interval_km |-> NULL, last_reset_mileage |-> NULL,
      interval_days |-> NULL, last_reset_date |-> NULL, is_repeating |-> FALSE,
      target_mileage |-> g, target_date |-> NULL,
      notification_schedule |-> InitialSchedule] : g \in {NULL} \cup (0..MaxKm)}
    \cup
    {[car_id |-> 1, name |-> "reminder", type |-> "time",
      interval_km |-> NULL, last_reset_mileage |-> NULL,
      interval_days |-> d, last_reset_date |-> s, is_repeating |-> FALSE,
      target_mileage |-> NULL, target_date |-> e,
      notification_schedule |-> InitialSchedule] :
        d \in {NULL, 0, SampleIntervalDays},
        s \in {NULL, 1 - SampleIntervalDays, 0, 1},
        e \in {NULL, 1}}
    \cup {add_reminder_row_registration(1, 0)}

\* A user with an active car, its mileage known or not, and one tracking.
InitMenu ==
    /\ users_has_referral_code = TRUE
    /\ sqlite_sequence = [cars |-> 1, reminders |-> 1]
    /\ users = (1 :> [balance_nuts |-> add_car, active_car_id |-> 1,
                      referrer_id |-> NULL,
                      mileage_reminder_period |-> DefaultMileageReminderPeriod])
    /\ \E mileage \in {NULL} \cup (0..MaxKm) :
         cars = (1 :> [user_id |-> 1, mileage |-> mileage,
                       mileage_allowance |-> DefaultMileageAllowance,
                       last_mileage_update_at |-> 0,
                       last_allowance_update_at |-> 0,
                       summary_filled |-> {}])
    /\ transactions = <<[user_id |-> 1, amount |-> add_car,
                         description |-> Description("add_car")]>>
    /\ \E row \in MenuRows : reminders = (1 :> row)
    /\ fsm = [u \in UserIds |-> StateClear]
    /\ reqs = [r \in ReqIds |-> IdleReq]
    /\ today = 0
    /\ tasks = <<>>
    /\ outbox = <<>>

NextMenu ==
    \/ \E r \in ReqIds : show_main_menu(r, 1)
    \/ \E r \in ReqIds : manage_reminder_menu(r, 1, 1)

SpecMenu == InitMenu /\ [][NextMenu]_vars

\* A mileage-interval tracking with its interval and start and a car with
\* a known odometer.
MileageIntervalShown(k, c) ==
    /\ reminders[k].type = "mileage"
    /\ reminders[k].interval_km # NULL
    /\ reminders[k].last_reset_mileage # NULL
    /\ cars[c].mileage # NULL

RemainingKm(k, c) ==
    reminders[k].last_reset_mileage + reminders[k].interval_km - cars[c].mileage

\* C23: for a configured mileage-interval tracking of a car with a known
\* odometer, the detail menu shows max(0, last_reset_mileage + interval_km
\* - odometer), and the main menu shows the tracking: as due exactly when
\* that difference is <= 0, with the difference as remaining km otherwise.
C23_RemainingDistanceShown ==
    /\ \A n \in DOMAIN outbox :
         (/\ outbox[n].kind = "mileage_tracking_detail_menu"
          /\ MileageIntervalShown(outbox[n].id, 1))
         => outbox[n].remaining_val =
               (IF RemainingKm(outbox[n].id, 1) < 0 THEN 0
                ELSE RemainingKm(outbox[n].id, 1))
    /\ \A n \in DOMAIN outbox :
         outbox[n].kind = "main_menu" =>
            \A i \in DOMAIN outbox[n].lines :
               LET l == outbox[n].lines[i] IN
               MileageIntervalShown(l.reminder_id, outbox[n].id) =>
                  IF RemainingKm(l.reminder_id, outbox[n].id) <= 0
                  THEN l.line = "reminder_line_due_full_bar"
                  ELSE /\ l.line = "reminder_line"
                       /\ l.remaining = RemainingKm(l.reminder_id, outbox[n].id)
    /\ \A r \in ReqIds :
         (reqs[r].handler = "show_main_menu" /\ reqs[r].pc = "ZeroDivisionError")
         => \A k \in DOMAIN reminders :
               reminders[k].car_id = reqs[r].car_id
               => ~MileageIntervalShown(k, reqs[r].car_id)

\* C25: the main menu never fails on a division, and every progress bar it
\* shows has a fraction between 0 and 1 and ten segments, 0 to 10 of them
\* filled.
C25_ProgressFractionInUnitInterval ==
    /\ \A r \in ReqIds : reqs[r].pc # "ZeroDivisionError"
    /\ \A n \in DOMAIN outbox :
         outbox[n].kind = "main_menu" =>
            \A i \in DOMAIN outbox[n].lines :
               LET l == outbox[n].lines[i] IN
               /\ l.filled \in 0..10
               /\ l.line \in {"reminder_line", "insurance_line"} =>
                    /\ 0 <= l.num /\ l.num <= l.den
                    /\ l.filled + l.empty = 10

\* ------------------------------------------------- unconfigured trackings
\* The rows the two sweeps and _is_reminder_configured tell apart: of type
\* 'time' or 'mileage', repeating, with or without an interval, a start
\* date (SampleIntervalDays ago or today) and a target date.
SweepRows ==
    [car_id : {1},
     name : {"reminder"},
     type : {"time", "mileage"},
     interval_km : {NULL}, last_reset_mileage : {NULL},
     interval_days : {NULL, SampleIntervalDays},
     last_reset_date : {NULL, 0 - SampleIntervalDays, 0},
     is_repeating : {TRUE},
     target_mileage : {NULL}, target_date : {NULL, 1},
     notification_schedule : {InitialSchedule}]

\* daily_scheduler lines 93-94: check_expired_reminders, then
\* check_time_based_notifications, over a table of reminders
InitSweeps ==
    /\ users_has_referral_code = TRUE
    /\ sqlite_sequence = [cars |-> 1, reminders |-> MaxReminder]
    /\ users = (1 :> [balance_nuts |-> add_car, active_car_id |-> 1,
                      referrer_id |-> NULL,
                      mileage_reminder_period |-> DefaultMileageReminderPeriod])
    /\ cars = (1 :> [user_id |-> 1, mileage |-> 0,
                     mileage_allowance |-> DefaultMileageAllowance,
                     last_mileage_update_at |-> 0,
                     last_allowance_update_at |-> 0,
                     summary_filled |-> {}])
    /\ transactions = <<[user_id |-> 1, amount |-> add_car,
                         description |-> Description("add_car")]>>
    /\ reminders \in [1..MaxReminder -> SweepRows]
    /\ fsm = [u \in UserIds |-> StateClear]
    /\ reqs = [r \in ReqIds |-> IdleReq]
    /\ today \in 0..MaxDay
    /\ tasks = [t \in {"daily_scheduler"} |->
                  Task("check_expired_reminders", "get_expired_repeating_reminders")]
    /\ outbox = <<>>

NextSweeps ==
    \/ NextRenew
    \/ NextNotify

SpecSweeps == InitSweeps /\ [][NextSweeps]_vars

\* C24: a tracking that is not configured is in the rows of neither sweep,
\* no notification carries its id, and no step of a sweep changes it.
C24_UnconfiguredNeverSelected ==
    /\ [](\A k \in DOMAIN reminders :
            ~is_reminder_configured(reminders[k]) =>
               /\ \A t \in DOMAIN tasks : \A i \in DOMAIN tasks[t].rows :
                    tasks[t].rows[i].reminder_id # k
               /\ \A n \in DOMAIN outbox : outbox[n].id # k)
    /\ [][\A k \in DOMAIN reminders :
            ~is_reminder_configured(reminders[k]) =>
               /\ k \in DOMAIN reminders'
               /\ reminders'[k] = reminders[k]]_vars

\* Both sweeps have run over a table with a tracking that is not configured
\* and one that was renewed and notified about.
C24_Witness ==
    /\ \E k \in DOMAIN reminders : ~is_reminder_configured(reminders[k])
    /\ \A t \in DOMAIN tasks : tasks[t].pc = "sleep_86400"
    /\ \E n, n2 \in DOMAIN outbox :
         /\ outbox[n].kind = "renewal_notification"
         /\ outbox[n2].kind = "time_based_notification"

\* ------------------------------------------- deleting a tracking meanwhile
\* delete_reminder_confirm: Reminder.delete_reminder, one DELETE
delete_reminder_confirm(reminder_id) ==
    /\ reminder_id \in DOMAIN reminders
    /\ reminders' = [k \in DOMAIN reminders \ {reminder_id} |-> reminders[k]]
    /\ UNCHANGED <<users_has_referral_code, sqlite_sequence, users, cars, transactions,
                   fsm, reqs, today, tasks, outbox>>

\* The sweeps of daily_scheduler while the owner deletes trackings.
NextSweepsDelete ==
    \/ NextSweeps
    \/ \E reminder_id \in 1..MaxReminder : delete_reminder_confirm(reminder_id)

SpecSweepsDelete == InitSweeps /\ [][NextSweepsDelete]_vars

\* C30: when a sweep comes to a row whose tracking is no longer in table
\* reminders, its step writes nothing to the table, sends no message and
\* does not go on to send a renewal notification for that row.
C30_DeletedRowSkipped ==
    [][\A t \in DOMAIN tasks :
          (/\ tasks[t].pc \in {"for_rem", "reset_time_reminder"}
           /\ tasks'[t] # tasks[t]
           /\ Head(tasks[t].rows).reminder_id \notin DOMAIN reminders)
          => /\ reminders' = reminders
             /\ outbox' = outbox
             /\ tasks'[t].pc # "send_renewal_notification"]_vars

\* ---------------------------------------------------------- mileage report
\* update_handlers.start_mileage_update
start_mileage_update(u) ==
    /\ fsm[u].state # "update_mileage"
    /\ fsm' = [fsm EXCEPT ![u].state = "update_mileage"]
    /\ UNCHANGED <<users_has_referral_code, sqlite_sequence, users, cars, transactions, reminders, reqs, today, background>>

\* process_mileage_update, lines 66-68: the allowance after the daily accrual
current_allowance(q) ==
    IF q.days_passed > 0
    THEN q.allowance_read + q.days_passed * mileage_allowance_per_day
    ELSE q.allowance_read

\* lines 71-72
mileage_added(q) == q.new_mileage - q.old_mileage

\* Mutant: the distance is not capped by the allowance.
RewardableIgnoresAllowance(q) == mileage_added(q)

rewardable_km(q) == Min(mileage_added(q), current_allowance(q))

\* Mutant: the points are rounded up.
NutsCeil(q) ==
    IF rewardable_km(q) > 0 /\ km_per_nut > 0
    THEN (rewardable_km(q) + km_per_nut - 1) \div km_per_nut
    ELSE 0

\* lines 74-76: math.floor(rewardable_km / km_per_nut), 0 when nothing is awarded
nuts_to_award(q) ==
    IF rewardable_km(q) > 0 /\ km_per_nut > 0
    THEN rewardable_km(q) \div km_per_nut
    ELSE 0

\* line 84
remaining_allowance(q) == current_allowance(q) - rewardable_km(q)

\* process_mileage_update up to its first write (lines 34-76): the digit
\* check, Car.get_active_car, Car.get_car_for_allowance_update, today.
process_mileage_update_read(r, u, text) ==
    /\ reqs[r].pc = "idle"
    /\ fsm[u].state = "update_mileage"
    /\ Len(transactions) + PendingAwards < MaxTx
    /\ IF text = NonDigit
       THEN UNCHANGED <<reqs, fsm, users>>
       ELSE LET car_id == get_active_car(u) IN
            IF car_id = NULL
            THEN /\ fsm' = [fsm EXCEPT ![u] = StateClear]
                 /\ UNCHANGED <<reqs, users>>
            ELSE LET q == [IdleReq EXCEPT
                           !.handler = "process_mileage_update",
                           !.pc = "award",
                           !.user_id = u, !.car_id = car_id,
                           !.new_mileage = text,
                           !.old_mileage = cars[car_id].mileage,
                           !.allowance_read = cars[car_id].mileage_allowance,
                           !.days_passed = today - cars[car_id].last_allowance_update_at]
                 IN /\ reqs' = [reqs EXCEPT ![r] =
                                  IF nuts_to_award(q) > 0 THEN q
                                  ELSE [q EXCEPT !.pc = "update"]]
                    \* get_active_car stores the car it fell back to
                    /\ users' = IF u \in DOMAIN users /\ users[u].active_car_id = NULL
                                THEN [users EXCEPT ![u].active_car_id = car_id]
                                ELSE users
                    /\ UNCHANGED fsm
    /\ UNCHANGED <<users_has_referral_code, sqlite_sequence, cars, transactions, reminders, today, background>>

\* lines 77-81: the ledger grant
process_mileage_update_award(r) ==
    /\ reqs[r].handler = "process_mileage_update"
    /\ reqs[r].pc = "award"
    /\ add_transaction(reqs[r].user_id, nuts_to_award(reqs[r]),
                       MileageDescription(rewardable_km(reqs[r])))
    /\ reqs' = [reqs EXCEPT ![r].pc = "update"]
    /\ UNCHANGED <<users_has_referral_code, sqlite_sequence, cars, reminders, fsm, today, background>>

\* Car.update_mileage_and_allowance: one UPDATE; date('now') is the day of
\* the write.  No row matches if the car was deleted meanwhile.
update_mileage_and_allowance(car_id, new_mileage, new_allowance) ==
    IF car_id \in DOMAIN cars
    THEN [cars EXCEPT ![car_id].mileage = new_mileage,
                      ![car_id].mileage_allowance = new_allowance,
                      ![car_id].last_mileage_update_at = today,
                      ![car_id].last_allowance_update_at = today]
    ELSE cars

\* lines 84-85
process_mileage_update_write(r) ==
    /\ reqs[r].handler = "process_mileage_update"
    /\ reqs[r].pc = "update"
    /\ cars' = update_mileage_and_allowance(reqs[r].car_id, reqs[r].new_mileage,
                                            remaining_allowance(reqs[r]))
    /\ reqs' = [reqs EXCEPT ![r].pc = "clear"]
    /\ UNCHANGED <<users_has_referral_code, sqlite_sequence, users, transactions, reminders, fsm, today, background>>

\* lines 89-91: state.clear()
process_mileage_update_clear(r) ==
    /\ reqs[r].handler = "process_mileage_update"
    /\ reqs[r].pc = "clear"
    /\ fsm' = [fsm EXCEPT ![reqs[r].user_id] = StateClear]
    /\ reqs' = [reqs EXCEPT ![r] = IdleReq]
    /\ UNCHANGED <<users_has_referral_code, sqlite_sequence, users, cars, transactions, reminders, today, background>>

\* A registered user whose one car was added on day 0 with the odometer the
\* registration dialogue asked for; the schema defaults fill the allowance.
InitMileage ==
    /\ users_has_referral_code = TRUE
    /\ sqlite_sequence = [cars |-> 1, reminders |-> 0]
    /\ users = (1 :> [balance_nuts |-> add_car, active_car_id |-> 1,
                             referrer_id |-> NULL,
                      mileage_reminder_period |-> DefaultMileageReminderPeriod])
    /\ \E m \in MileageInputs :
         cars = (1 :> [user_id |-> 1, mileage |-> m,
                       mileage_allowance |-> DefaultMileageAllowance,
                       last_mileage_update_at |-> 0,
                       last_allowance_update_at |-> 0,
                       summary_filled |-> {}])
    /\ transactions = <<[user_id |-> 1, amount |-> add_car,
                         description |-> Description("add_car")]>>
    /\ reminders = <<>>
    /\ fsm = [u \in UserIds |-> StateClear]
    /\ reqs = [r \in ReqIds |-> IdleReq]
    /\ today = 0
    /\ tasks = <<>>
    /\ outbox = <<>>

MileageStepOf(r) ==
    \/ \E u \in UserIds, text \in MileageInputs \cup {NonDigit} :
         process_mileage_update_read(r, u, text)
    \/ process_mileage_update_award(r)
    \/ process_mileage_update_write(r)
    \/ process_mileage_update_clear(r)

NextMileage ==
    \/ \E u \in UserIds : start_mileage_update(u)
    \/ \E r \in ReqIds : MileageStepOf(r)
    \/ NextDay

\* Reports handled as concurrent tasks.
SpecMileage == InitMileage /\ [][NextMileage]_vars

NextMileageSeq ==
    \/ \E u \in UserIds : start_mileage_update(u)
    \/ MileageStepOf(1)
    \/ NextDay

\* Reports handled one at a time: a call ends before the next one starts.
SpecMileageSeq == InitMileage /\ [][NextMileageSeq]_vars

\* ------------------------------------------------- mileage report: claims
\* The kilometres the ledger has rewarded to user_id: the numbers formatted
\* into the descriptions of the mileage grants among the first n rows.
RECURSIVE RewardedKm(_, _)
RewardedKm(user_id, n) ==
    IF n = 0 THEN 0
    ELSE RewardedKm(user_id, n - 1)
         + (IF /\ transactions[n].user_id = user_id
               /\ transactions[n].description.text = "mileage_update_km"
            THEN transactions[n].description.arg ELSE 0)

RECURSIVE RewardedNuts(_, _)
RewardedNuts(user_id, n) ==
    IF n = 0 THEN 0
    ELSE RewardedNuts(user_id, n - 1)
         + (IF /\ transactions[n].user_id = user_id
               /\ transactions[n].description.text = "mileage_update_km"
            THEN transactions[n].amount ELSE 0)

\* What the specification says a report may reward and leaves.
SpecBudget(q) == q.allowance_read + q.days_passed * mileage_allowance_per_day
SpecRewardable(q) == Min(q.new_mileage - q.old_mileage, SpecBudget(q))
SpecPoints(q) == SpecRewardable(q) \div km_per_nut

ReadStep(r) == reqs[r].pc = "idle" /\ reqs'[r].pc \in {"award", "update"}
AwardStep(r) == reqs[r].pc = "award" /\ reqs'[r].pc = "update"
WriteStep(r) == reqs[r].pc = "update" /\ reqs'[r].pc = "clear"

\* C3: over any sequence of reports on a vehicle, the kilometres rewarded
\* stay within the initial allowance plus the daily rate times the whole
\* days elapsed since the allowance clock started (day 0 here), and the
\* points within that budget divided by km_per_nut.
C3_RewardWithinBudget ==
    \A c \in DOMAIN cars :
        LET budget == DefaultMileageAllowance + mileage_allowance_per_day * today
            owner == cars[c].user_id
        IN  /\ RewardedKm(owner, Len(transactions)) <= budget
            /\ RewardedNuts(owner, Len(transactions)) * km_per_nut <= budget

\* C4: a report below the stored odometer counts as distance 0: no points,
\* and the stored allowance is exactly the accrued allowance.
C4_DecreaseIsZeroDistance ==
    [][\A r \in ReqIds :
        /\ (ReadStep(r) /\ reqs'[r].new_mileage < reqs'[r].old_mileage)
              => reqs'[r].pc = "update"
        /\ (WriteStep(r) /\ reqs[r].new_mileage < reqs[r].old_mileage)
              => /\ transactions' = transactions
                 /\ cars'[reqs[r].car_id].mileage_allowance = SpecBudget(reqs[r])
      ]_vars

\* C5: no report leaves the stored odometer lower than it was.
C5_OdometerMonotone ==
    [][\A c \in DOMAIN cars :
        c \in DOMAIN cars' => cars'[c].mileage >= cars[c].mileage]_vars

\* C6: a report with new_mileage >= old_mileage awards
\* floor(min(new - old, allowance + days * rate) / km_per_nut) points and
\* stores allowance + days * rate - min(new - old, allowance + days * rate).
C6_RewardFormula ==
    [][\A r \in ReqIds :
        /\ (ReadStep(r) /\ reqs'[r].new_mileage >= reqs'[r].old_mileage)
              => (reqs'[r].pc = "award" <=> SpecPoints(reqs'[r]) > 0)
        /\ (AwardStep(r) /\ reqs[r].new_mileage >= reqs[r].old_mileage)
              => /\ Len(transactions') = Len(transactions) + 1
                 /\ transactions'[Len(transactions')].user_id = reqs[r].user_id
                 /\ transactions'[Len(transactions')].amount = SpecPoints(reqs[r])
                 /\ transactions'[Len(transactions')].description.arg
                        = SpecRewardable(reqs[r])
        /\ (WriteStep(r) /\ reqs[r].new_mileage >= reqs[r].old_mileage)
              => /\ transactions' = transactions
                 /\ cars'[reqs[r].car_id].mileage = reqs[r].new_mileage
                 /\ cars'[reqs[r].car_id].mileage_allowance
                        = SpecBudget(reqs[r]) - SpecRewardable(reqs[r])
      ]_vars

\* A report over more kilometres than one day's accrual tops up has been
\* granted and written: the points were rounded down from a distance that is
\* no multiple of km_per_nut.
C6_Witness ==
    \E r \in ReqIds :
        /\ reqs[r].pc = "clear"
        /\ reqs[r].days_passed > 0
        /\ reqs[r].new_mileage > reqs[r].old_mileage
        /\ SpecRewardable(reqs[r]) % km_per_nut # 0
        /\ Len(transactions) > 1
        /\ transactions[Len(transactions)].amount = SpecPoints(reqs[r])
        /\ cars[reqs[r].car_id].mileage_allowance
               = SpecBudget(reqs[r]) - SpecRewardable(reqs[r])

\* C7: no report stores a remaining allowance below 0 or appends a grant
\* with a negative amount.
C7_AllowanceAndGrantsNonNegative ==
    /\ \A c \in DOMAIN cars : cars[c].mileage_allowance >= 0
    /\ \A i \in 1..Len(transactions) : transactions[i].amount >= 0

\* A report that used up the whole allowance has been granted and written.
C7_Witness ==
    \E r \in ReqIds :
        /\ reqs[r].pc = "clear"
        /\ reqs[r].new_mileage - reqs[r].old_mileage > SpecBudget(reqs[r])
        /\ cars[reqs[r].car_id].mileage_allowance = 0
        /\ transactions[Len(transactions)].description.text = "mileage_update_km"

\* C8: the grant and the vehicle update are one step: whenever a mileage
\* grant is appended, the same step stores the reported odometer, today as
\* the allowance date, and the allowance reduced by the granted kilometres.
C8_GrantAndUpdateAtomic ==
    [][\A r \in ReqIds :
        AwardStep(r) =>
            LET c == reqs[r].car_id
                km == transactions'[Len(transactions')].description.arg
            IN  /\ cars'[c].mileage = reqs[r].new_mileage
                /\ cars'[c].last_allowance_update_at = today
                /\ cars'[c].mileage_allowance
                       = cars[c].mileage_allowance
                         + mileage_allowance_per_day
                             * (today - cars[c].last_allowance_update_at)
                         - km
      ]_vars

\* ------------------------------------------------------ editing a tracking
\* Mutant: the UPDATE also puts the schedule back.
UpdateReminderDetailsAndSchedule(reminder_id, details) ==
    IF DOMAIN details = {} \/ reminder_id \notin DOMAIN reminders
    THEN reminders
    ELSE [reminders EXCEPT ![reminder_id] =
            [f \in DOMAIN reminders[reminder_id] |->
                IF f \in DOMAIN details THEN details[f]
                ELSE IF f = "notification_schedule" THEN InitialSchedule
                ELSE reminders[reminder_id][f]]]

\* Reminder.update_reminder_details(reminder_id, details): nothing for an
\* empty dict; else one UPDATE that sets the columns of details and matches
\* no row when the reminder is gone
UpdateReminderDetails(reminder_id, details) ==
    IF DOMAIN details = {} \/ reminder_id \notin DOMAIN reminders
    THEN reminders
    ELSE [reminders EXCEPT ![reminder_id] =
            [f \in DOMAIN reminders[reminder_id] |->
                IF f \in DOMAIN details THEN details[f]
                ELSE reminders[reminder_id][f]]]

\* The message texts the input handlers tell apart, with what
\* str.isdigit(), int() and datetime.strptime(text, "%d.%m.%Y") make of
\* them; date is the day the text names.
MessageTexts ==
    {[text |-> "5000", isdigit |-> TRUE, int_raises |-> FALSE, int |-> MaxKm,
      strptime_raises |-> TRUE, date |-> NULL],
     [text |-> "-5", isdigit |-> FALSE, int_raises |-> FALSE, int |-> 0 - 5,
      strptime_raises |-> TRUE, date |-> NULL],
     [text |-> "superscript two", isdigit |-> TRUE, int_raises |-> TRUE, int |-> NULL,
      strptime_raises |-> TRUE, date |-> NULL],
     [text |-> "abc", isdigit |-> FALSE, int_raises |-> TRUE, int |-> NULL,
      strptime_raises |-> TRUE, date |-> NULL],
     [text |-> "31.02.2025", isdigit |-> FALSE, int_raises |-> TRUE, int |-> NULL,
      strptime_raises |-> TRUE, date |-> NULL],
     [text |-> "01.01.2025", isdigit |-> FALSE, int_raises |-> TRUE, int |-> NULL,
      strptime_raises |-> FALSE, date |-> 1]}

\* Mutant: the handlers take any text for a number.
IsAnyText(text) == TRUE

\* message.text.isdigit()
isdigit(text) == text.isdigit

\* The states of ReminderFSM that await a new value, with the column their
\* message handler hands to _process_fsm_edit
EditColumn ==
    [edit_interval_km |-> "interval_km",
     edit_last_reset_mileage |-> "last_reset_mileage",
     edit_target_mileage |-> "target_mileage",
     edit_interval_days |-> "interval_days",
     edit_start_date |-> "last_reset_date"]

\* FSMContext.get_data().get(key)
data_get(u, key) == IF key \in DOMAIN fsm[u] THEN fsm[u][key] ELSE NULL

\* start_edit_reminder_interval_km, start_edit_last_reset_mileage,
\* start_edit_target_mileage, start_edit_reminder_interval and
\* start_edit_reminder_start_date: the reminder id of the callback data goes
\* to the FSM data and the state is set.  Only two of them read the
\* reminder, and none looks at its type.
start_edit_reminder(u, state, reminder_id) ==
    /\ IF \/ /\ state = "edit_last_reset_mileage"
             /\ \/ get_active_car(u) = NULL
                \/ cars[get_active_car(u)].mileage = NULL
                \/ reminder_id \notin DOMAIN reminders
          \/ /\ state = "edit_start_date"
             /\ reminder_id \notin DOMAIN reminders
       THEN UNCHANGED fsm
       ELSE fsm' = [fsm EXCEPT ![u] =
                      [state |-> state, reminder_id |-> reminder_id,
                       prompt_message_id |-> 1] @@ @]
    /\ UNCHANGED <<users_has_referral_code, sqlite_sequence, users, cars, transactions,
                   reminders, reqs, today, tasks, outbox>>

\* _process_fsm_edit: without its FSM data the state is cleared; else
\* update_reminder_details, then state.clear()
process_fsm_edit(u, update_dict) ==
    /\ IF data_get(u, "reminder_id") = NULL \/ data_get(u, "prompt_message_id") = NULL
       THEN reminders' = reminders
       ELSE reminders' = UpdateReminderDetails(data_get(u, "reminder_id"), update_dict)
    /\ fsm' = [fsm EXCEPT ![u] = StateClear]
    /\ outbox' = outbox

\* process_edit_reminder_interval_km, process_edit_last_reset_mileage,
\* process_edit_target_mileage, process_edit_reminder_interval: the reply
\* to a text that is not digits, int(message.text), _process_fsm_edit;
\* process_edit_reminder_start_date: strptime, _process_fsm_edit, the reply
\* to a ValueError
process_edit_reminder(u, text) ==
    /\ fsm[u].state \in DOMAIN EditColumn
    /\ IF fsm[u].state = "edit_start_date"
       THEN IF text.strptime_raises
            THEN /\ outbox' = send_message([kind |-> "invalid_date_format", user_id |-> u,
                                            id |-> NULL, days_left |-> NULL,
                                            delivered |-> TRUE])
                 /\ UNCHANGED <<reminders, fsm>>
            ELSE process_fsm_edit(u, "last_reset_date" :> text.date)
       ELSE IF ~isdigit(text)
            THEN /\ outbox' = send_message([kind |-> "must_be_digit", user_id |-> u,
                                            id |-> NULL, days_left |-> NULL,
                                            delivered |-> TRUE])
                 /\ UNCHANGED <<reminders, fsm>>
            ELSE IF text.int_raises
            THEN UNCHANGED <<reminders, fsm, outbox>>
            ELSE process_fsm_edit(u, EditColumn[fsm[u].state] :> text.int)
    /\ UNCHANGED <<users_has_referral_code, sqlite_sequence, users, cars, transactions,
                   reqs, today, tasks>>

\* process_mileage_update lines 36-42: the reply to a text that is not
\* digits; the state stays
process_mileage_update_reject(u, text) ==
    /\ fsm[u].state = "update_mileage"
    /\ ~isdigit(text)
    /\ outbox' = send_message([kind |-> "must_be_digit", user_id |-> u,
                               id |-> NULL, days_left |-> NULL, delivered |-> TRUE])
    /\ UNCHANGED <<users_has_referral_code, sqlite_sequence, users, cars, transactions,
                   reminders, fsm, reqs, today, tasks>>

\* One owner with a car, a mileage tracking and a time tracking.
InitEdit ==
    /\ users_has_referral_code = TRUE
    /\ sqlite_sequence = [cars |-> 1, reminders |-> 2]
    /\ users = (1 :> [balance_nuts |-> add_car, active_car_id |-> 1,
                      referrer_id |-> NULL,
                      mileage_reminder_period |-> DefaultMileageReminderPeriod])
    /\ cars = (1 :> [user_id |-> 1, mileage |-> 0,
                     mileage_allowance |-> DefaultMileageAllowance,
                     last_mileage_update_at |-> 0,
                     last_allowance_update_at |-> 0,
                     summary_filled |-> {}])
    /\ transactions = <<[user_id |-> 1, amount |-> add_car,
                         description |-> Description("add_car")]>>
    /\ reminders =
         <<[car_id |-> 1, name |-> "reminder", type |-> "mileage",
            interval_km |-> 1, last_reset_mileage |-> 0,
            interval_days |-> NULL, last_reset_date |-> NULL,
            is_repeating |-> FALSE, target_mileage |-> NULL, target_date |-> NULL,
            notification_schedule |-> InitialSchedule],
           [car_id |-> 1, name |-> "reminder", type |-> "time",
            interval_km |-> NULL, last_reset_mileage |-> NULL,
            interval_days |-> SampleIntervalDays, last_reset_date |-> 0,
            is_repeating |-> FALSE, target_mileage |-> NULL, target_date |-> NULL,
            notification_schedule |-> InitialSchedule]>>
    /\ fsm = [u \in UserIds |-> StateClear]
    /\ reqs = [r \in ReqIds |-> IdleReq]
    /\ today = 0
    /\ tasks = <<>>
    /\ outbox = <<>>

NextEdit ==
    \/ \E state \in DOMAIN EditColumn, reminder_id \in DOMAIN reminders :
         start_edit_reminder(1, state, reminder_id)
    \/ \E text \in MessageTexts : process_edit_reminder(1, text)
    \/ start_mileage_update(1)
    \/ \E text \in MessageTexts : process_mileage_update_reject(1, text)

SpecEdit == InitEdit /\ [][NextEdit]_vars

\* The columns the kind of a tracking uses.
Applicable(type, column) ==
    \/ type = "mileage" /\ column \in {"interval_km", "last_reset_mileage"}
    \/ type = "exact_mileage" /\ column = "target_mileage"
    \/ type = "time" /\ column \in {"interval_days", "last_reset_date"}

\* C27: when the owner's edit names a column that the kind of the tracking
\* does not use, the handler's step leaves table reminders as it is.
C27_InapplicableFieldIgnored ==
    [][\A u \in UserIds, k \in DOMAIN reminders :
          (/\ fsm[u].state \in DOMAIN EditColumn
           /\ data_get(u, "reminder_id") = k
           /\ ~Applicable(reminders[k].type, EditColumn[fsm[u].state]))
          => reminders' = reminders]_vars

\* C28: no text that is not a non-negative number is ever stored as an
\* interval, a start mileage or a target mileage, and a step that answers
\* with the must-be-digit or invalid-date reply changes no tracking, car,
\* transaction or balance and leaves the owner's input state as it is.
C28_InvalidValueRejected ==
    /\ [](\A k \in DOMAIN reminders :
            \A f \in {"interval_km", "last_reset_mileage", "target_mileage",
                      "interval_days"} :
               reminders[k][f] = NULL \/ reminders[k][f] >= 0)
    /\ [][\A u \in UserIds :
            (/\ outbox' # outbox
             /\ outbox'[Len(outbox')].kind \in {"must_be_digit", "invalid_date_format"}
             /\ outbox'[Len(outbox')].user_id = u)
            => /\ reminders' = reminders
               /\ cars' = cars
               /\ transactions' = transactions
               /\ users' = users
               /\ fsm'[u] = fsm[u]]_vars

\* The owner was told that a number and that a date was not valid, is
\* still asked for a date for the time tracking, and both trackings are as
\* created.
C28_Witness ==
    /\ \E n \in DOMAIN outbox : outbox[n].kind = "must_be_digit"
    /\ \E n \in DOMAIN outbox : outbox[n].kind = "invalid_date_format"
    /\ fsm[1].state = "edit_start_date"
    /\ data_get(1, "reminder_id") = 2
    /\ reminders[1].interval_km = 1
    /\ reminders[2].last_reset_date = 0

\* ------------------------------------------------------ patching a tracking
\* The details of a call: some of three columns, with one of two values each.
PatchDetails ==
    {[f \in keys |-> v[f]] :
        keys \in SUBSET {"interval_km", "interval_days", "notification_schedule"},
        v \in {[interval_km |-> MaxKm, interval_days |-> SampleIntervalDays,
                notification_schedule |-> <<>>],
               [interval_km |-> 0, interval_days |-> 0,
                notification_schedule |-> <<7, 1>>]}}

\* One call of Reminder.update_reminder_details; the request keeps its
\* arguments.
update_reminder_details_call(r, reminder_id, details) ==
    /\ reminders' = UpdateReminderDetails(reminder_id, details)
    /\ reqs' = [reqs EXCEPT ![r] =
                  [details |-> details]
                  @@ [IdleReq EXCEPT !.handler = "update_reminder_details",
                                     !.pc = "done",
                                     !.reminder_id = reminder_id]]
    /\ UNCHANGED <<users_has_referral_code, sqlite_sequence, users, cars, transactions,
                   fsm, today, tasks, outbox>>

NextPatch ==
    \E reminder_id \in 1..(Len(reminders) + 1), details \in PatchDetails :
       update_reminder_details_call(1, reminder_id, details)

SpecPatch == InitEdit /\ [][NextPatch]_vars

\* C26: a call of update_reminder_details leaves every column of every
\* tracking as it was, but the columns of details in the tracking of the
\* call, which get the values of details; a call with no details changes
\* nothing.
C26_PatchChangesOnlyNamedFields ==
    [][/\ DOMAIN reminders' = DOMAIN reminders
       /\ \A j \in DOMAIN reminders : \A f \in DOMAIN reminders[j] :
            reminders'[j][f] =
               IF j = reqs'[1].reminder_id /\ f \in DOMAIN reqs'[1].details
               THEN reqs'[1].details[f]
               ELSE reminders[j][f]
       /\ DOMAIN reqs'[1].details = {} => reminders' = reminders]_vars

\* The last call named interval_km alone, for the mileage tracking: its
\* interval is the new one and its start and the time tracking are as
\* created.
C26_Witness ==
    /\ reqs[1].handler = "update_reminder_details"
    /\ reqs[1].reminder_id = 1
    /\ DOMAIN reqs[1].details = {"interval_km"}
    /\ reminders[1].interval_km = MaxKm
    /\ reminders[1].last_reset_mileage = 0
    /\ reminders[1].notification_schedule = InitialSchedule
    /\ reminders[2].interval_days = SampleIntervalDays

\* ----------------------------------------------------- restarting a tracking
\* Reminder.reset_mileage_reminder: one UPDATE of last_reset_mileage
reset_mileage_reminder(reminder_id, current_mileage) ==
    IF reminder_id \in DOMAIN reminders
    THEN [reminders EXCEPT ![reminder_id].last_reset_mileage = current_mileage]
    ELSE reminders

\* A callback handler that has run to its end for reminder_id.
Handled(handler, u, reminder_id) ==
    [IdleReq EXCEPT !.handler = handler, !.pc = "done", !.user_id = u,
                    !.reminder_id = reminder_id]

\* restart_reminder_from_main_menu: the branches on the stored type; a type
\* that is none of 'mileage_interval', 'exact_mileage' and 'time' gets the
\* refreshed main menu and nothing else
restart_reminder_from_main_menu(r, u, reminder_id) ==
    /\ IF reminder_id \notin DOMAIN reminders
       THEN UNCHANGED <<reminders, users>>
       ELSE /\ users' = get_active_car_users(u)
            /\ IF reminders[reminder_id].type \in {"mileage_interval", "exact_mileage"}
               THEN IF /\ get_active_car(u) # NULL
                       /\ cars[get_active_car(u)].mileage # NULL
                    THEN reminders' = reset_mileage_reminder(
                                         reminder_id, cars[get_active_car(u)].mileage)
                    ELSE reminders' = reminders
               ELSE IF reminders[reminder_id].type = "time"
               THEN reminders' = reset_time_reminder(reminder_id, today, FALSE)
               ELSE reminders' = reminders
    /\ reqs' = [reqs EXCEPT ![r] =
                  Handled("restart_reminder_from_main_menu", u, reminder_id)]
    /\ UNCHANGED <<users_has_referral_code, sqlite_sequence, cars, transactions,
                   fsm, today, tasks, outbox>>

\* set_current_mileage_for_tracking: the odometer of the active car becomes
\* the start of the tracking
set_current_mileage_for_tracking(r, u, reminder_id) ==
    /\ users' = get_active_car_users(u)
    /\ IF get_active_car(u) = NULL \/ cars[get_active_car(u)].mileage = NULL
       THEN reminders' = reminders
       ELSE reminders' = UpdateReminderDetails(
                            reminder_id,
                            "last_reset_mileage" :> cars[get_active_car(u)].mileage)
    /\ reqs' = [reqs EXCEPT ![r] =
                  Handled("set_current_mileage_for_tracking", u, reminder_id)]
    /\ UNCHANGED <<users_has_referral_code, sqlite_sequence, cars, transactions,
                   fsm, today, tasks, outbox>>

\* set_current_date_for_tracking: today becomes the start of the tracking
set_current_date_for_tracking(r, u, reminder_id) ==
    /\ reminders' = UpdateReminderDetails(reminder_id, "last_reset_date" :> today)
    /\ fsm' = [fsm EXCEPT ![u] = StateClear]
    /\ reqs' = [reqs EXCEPT ![r] =
                  Handled("set_current_date_for_tracking", u, reminder_id)]
    /\ UNCHANGED <<users_has_referral_code, sqlite_sequence, users, cars, transactions,
                   today, tasks, outbox>>

\* One owner with a car, a tracking by mileage stored as 'mileage' (a row
\* of the migration) or 'mileage_interval' (a row of the creation flow),
\* and a time tracking whose schedule is whole, shortened or emptied.
InitRestart ==
    /\ users_has_referral_code = TRUE
    /\ sqlite_sequence = [cars |-> 1, reminders |-> 2]
    /\ users = (1 :> [balance_nuts |-> add_car, active_car_id |-> 1,
                      referrer_id |-> NULL,
                      mileage_reminder_period |-> DefaultMileageReminderPeriod])
    /\ \E mileage \in {NULL, MaxKm, 2 * MaxKm} :
         cars = (1 :> [user_id |-> 1, mileage |-> mileage,
                       mileage_allowance |-> DefaultMileageAllowance,
                       last_mileage_update_at |-> 0,
                       last_allowance_update_at |-> 0,
                       summary_filled |-> {}])
    /\ transactions = <<[user_id |-> 1, amount |-> add_car,
                         description |-> Description("add_car")]>>
    /\ \E type \in {"mileage", "mileage_interval"}, is_repeating \in BOOLEAN,
          last_reset_date \in {0 - SampleIntervalDays, 0},
          notification_schedule \in {InitialSchedule, <<7, 1>>, <<>>} :
         reminders =
           <<[car_id |-> 1, name |-> "reminder", type |-> type,
              interval_km |-> MaxKm, last_reset_mileage |-> 0,
              interval_days |-> NULL, last_reset_date |-> NULL,
              is_repeating |-> FALSE, target_mileage |-> NULL, target_date |-> NULL,
              notification_schedule |-> InitialSchedule],
             [car_id |-> 1, name |-> "reminder", type |-> "time",
              interval_km |-> NULL, last_reset_mileage |-> NULL,
              interval_days |-> SampleIntervalDays, last_reset_date |-> last_reset_date,
              is_repeating |-> is_repeating, target_mileage |-> NULL,
              target_date |-> NULL,
              notification_schedule |-> notification_schedule]>>
    /\ fsm = [u \in UserIds |-> StateClear]
    /\ reqs = [r \in ReqIds |-> IdleReq]
    /\ today \in 0..MaxDay
    /\ tasks = <<>>
    /\ outbox = <<>>

NextRestart ==
    \/ \E reminder_id \in DOMAIN reminders :
         restart_reminder_from_main_menu(1, 1, reminder_id)
    \/ \E reminder_id \in DOMAIN reminders :
         set_current_mileage_for_tracking(1, 1, reminder_id)
    \/ \E reminder_id \in DOMAIN reminders :
         set_current_date_for_tracking(1, 1, reminder_id)

SpecRestart == InitRestart /\ [][NextRestart]_vars

\* C32: after the restart of a tracking stored as 'mileage' or
\* 'mileage_interval' on a car with a known odometer, from the main menu or
\* with the current-mileage button, last_reset_mileage is the odometer, so
\* the remaining distance is interval_km.
C32_RestartSetsStartToOdometer ==
    [][\A k \in DOMAIN reminders :
          (/\ reqs'[1] # reqs[1] \/ reminders' # reminders
           /\ reqs'[1].handler \in {"restart_reminder_from_main_menu",
                                    "set_current_mileage_for_tracking"}
           /\ reqs'[1].reminder_id = k
           /\ reminders[k].type \in {"mileage", "mileage_interval"}
           /\ cars[reminders[k].car_id].mileage # NULL)
          => /\ reminders'[k].last_reset_mileage = cars[reminders[k].car_id].mileage
             /\ reminders'[k].last_reset_mileage + reminders'[k].interval_km
                   - cars[reminders[k].car_id].mileage = reminders'[k].interval_km]_vars

\* C33: a manual reset of a time tracking, from the main menu or with the
\* current-date button, sets its last_reset_date to the day of the reset and
\* leaves every other column of it and every other tracking as they were.
C33_ManualResetChangesOnlyStartDate ==
    [][\A k \in DOMAIN reminders :
          (/\ reqs'[1] # reqs[1] \/ reminders' # reminders
           /\ reqs'[1].handler \in {"restart_reminder_from_main_menu",
                                    "set_current_date_for_tracking"}
           /\ reqs'[1].reminder_id = k
           /\ reminders[k].type = "time")
          => reminders' = [reminders EXCEPT ![k].last_reset_date = today]]_vars

\* The time tracking, overdue and with its schedule emptied, was restarted
\* from the main menu on day 1: it starts on day 1 and its schedule is empty.
C33_Witness ==
    /\ reqs[1].handler = "restart_reminder_from_main_menu"
    /\ reqs[1].reminder_id = 2
    /\ today = 1
    /\ reminders[2].last_reset_date = 1
    /\ reminders[2].notification_schedule = <<>>
    /\ reminders[2].interval_days = SampleIntervalDays

\* ------------------------------------------- renewal against the owner
\* Reminder.toggle_reminder_repeat: the SELECT and the UPDATE of one call
toggle_reminder_repeat(reminder_id) ==
    IF reminder_id \in DOMAIN reminders
    THEN [reminders EXCEPT ![reminder_id].is_repeating = (@ # TRUE)]
    ELSE reminders

\* toggle_repeat_tracking
toggle_repeat_tracking(r, u, reminder_id) ==
    /\ reminders' = toggle_reminder_repeat(reminder_id)
    /\ reqs' = [reqs EXCEPT ![r] = Handled("toggle_repeat_tracking", u, reminder_id)]
    /\ UNCHANGED <<users_has_referral_code, sqlite_sequence, users, cars, transactions,
                   fsm, today, tasks, outbox>>

\* One pass of check_expired_reminders over a time tracking of the owner,
\* repeating or not, due or started today, while the owner is at the menus.
InitRenewRace ==
    /\ users_has_referral_code = TRUE
    /\ sqlite_sequence = [cars |-> 1, reminders |-> 1]
    /\ users = (1 :> [balance_nuts |-> add_car, active_car_id |-> 1,
                      referrer_id |-> NULL,
                      mileage_reminder_period |-> DefaultMileageReminderPeriod])
    /\ cars = (1 :> [user_id |-> 1, mileage |-> 0,
                     mileage_allowance |-> DefaultMileageAllowance,
                     last_mileage_update_at |-> 0,
                     last_allowance_update_at |-> 0,
                     summary_filled |-> {}])
    /\ transactions = <<[user_id |-> 1, amount |-> add_car,
                         description |-> Description("add_car")]>>
    /\ \E is_repeating \in BOOLEAN, last_reset_date \in {0 - SampleIntervalDays, 0},
          notification_schedule \in {InitialSchedule, <<7, 1>>} :
         reminders =
           <<[car_id |-> 1, name |-> "reminder", type |-> "time",
              interval_km |-> NULL, last_reset_mileage |-> NULL,
              interval_days |-> SampleIntervalDays, last_reset_date |-> last_reset_date,
              is_repeating |-> is_repeating, target_mileage |-> NULL,
              target_date |-> NULL,
              notification_schedule |-> notification_schedule]>>
    /\ fsm = [u \in UserIds |-> StateClear]
    /\ reqs = [r \in ReqIds |-> IdleReq]
    /\ today \in 0..MaxDay
    /\ tasks = [t \in {"check_expired_reminders"} |->
                  Task(t, "get_expired_repeating_reminders")]
    /\ outbox = <<>>

NextRenewRace ==
    \/ \E t \in DOMAIN tasks : check_expired_reminders_query(t)
    \/ \E t \in DOMAIN tasks : check_expired_reminders_reset(t)
    \/ \E t \in DOMAIN tasks : check_expired_reminders_send(t)
    \/ \E reminder_id \in DOMAIN reminders :
         restart_reminder_from_main_menu(1, 1, reminder_id)
    \/ \E reminder_id \in DOMAIN reminders :
         set_current_date_for_tracking(1, 1, reminder_id)
    \/ \E reminder_id \in DOMAIN reminders :
         toggle_repeat_tracking(1, 1, reminder_id)
    \/ \E reminder_id \in DOMAIN reminders :
         start_edit_reminder(1, "edit_start_date", reminder_id)
    \/ \E text \in MessageTexts : process_edit_reminder(1, text)

SpecRenewRace == InitRenewRace /\ [][NextRenewRace]_vars

\* C34: the renewal write of the sweep lands on a tracking that is, at the
\* moment of the write, repeating and due, and leaves its last_reset_date
\* not later than today, however the owner's restart, start-date edit and
\* repeat toggle interleave with the sweep.
C34_RenewalOnlyOfDueRepeating ==
    [][\A t \in DOMAIN tasks :
         RenewalStep(t) =>
            LET k == Head(tasks[t].rows).reminder_id IN
            /\ reminders[k].is_repeating = TRUE
            /\ today - reminders[k].last_reset_date >= reminders[k].interval_days
            /\ reminders'[k].last_reset_date <= today]_vars

\* ------------------------------------------------ renewal pass after pass
\* The texts the owner sends for a new interval_days that differ in their
\* int(): "0" is digits to str.isdigit() as much as "3" is.
IntervalTexts ==
    {[text |-> "0", isdigit |-> TRUE, int_raises |-> FALSE, int |-> 0,
      strptime_raises |-> TRUE, date |-> NULL],
     [text |-> "3", isdigit |-> TRUE, int_raises |-> FALSE, int |-> SampleIntervalDays,
      strptime_raises |-> TRUE, date |-> NULL],
     [text |-> "-3", isdigit |-> FALSE, int_raises |-> FALSE,
      int |-> 0 - SampleIntervalDays, strptime_raises |-> TRUE, date |-> NULL]}

\* daily_scheduler's loop calling check_expired_reminders again, on the
\* same day here
check_expired_reminders_again(t) ==
    /\ tasks[t].fn = "check_expired_reminders"
    /\ tasks[t].pc = "done"
    /\ tasks' = [tasks EXCEPT ![t] =
                   Task("check_expired_reminders", "get_expired_repeating_reminders")]
    /\ UNCHANGED <<users_has_referral_code, sqlite_sequence, users, cars, transactions,
                   reminders, fsm, reqs, today, outbox>>

\* A repeating time tracking as _calculate_and_finish_time_reminder makes
\* it (interval_days = end date - start date > 0) and the sweep on one day.
InitRenewLoop ==
    /\ users_has_referral_code = TRUE
    /\ sqlite_sequence = [cars |-> 1, reminders |-> 1]
    /\ users = (1 :> [balance_nuts |-> add_car, active_car_id |-> 1,
                      referrer_id |-> NULL,
                      mileage_reminder_period |-> DefaultMileageReminderPeriod])
    /\ cars = (1 :> [user_id |-> 1, mileage |-> 0,
                     mileage_allowance |-> DefaultMileageAllowance,
                     last_mileage_update_at |-> 0,
                     last_allowance_update_at |-> 0,
                     summary_filled |-> {}])
    /\ transactions = <<[user_id |-> 1, amount |-> add_car,
                         description |-> Description("add_car")]>>
    /\ \E last_reset_date \in {0 - 2 * SampleIntervalDays, 0 - SampleIntervalDays, 0} :
         reminders =
           <<[car_id |-> 1, name |-> "reminder", type |-> "time",
              interval_km |-> NULL, last_reset_mileage |-> NULL,
              interval_days |-> SampleIntervalDays, last_reset_date |-> last_reset_date,
              is_repeating |-> TRUE, target_mileage |-> NULL,
              target_date |-> NULL,
              notification_schedule |-> InitialSchedule]>>
    /\ fsm = [u \in UserIds |-> StateClear]
    /\ reqs = [r \in ReqIds |-> IdleReq]
    /\ today \in 0..MaxDay
    /\ tasks = [t \in {"check_expired_reminders"} |->
                  Task(t, "get_expired_repeating_reminders")]
    /\ outbox = <<>>

NextRenewLoop ==
    \/ \E t \in DOMAIN tasks : check_expired_reminders_query(t)
    \/ \E t \in DOMAIN tasks : check_expired_reminders_reset(t)
    \/ \E t \in DOMAIN tasks : check_expired_reminders_send(t)
    \/ \E t \in DOMAIN tasks : check_expired_reminders_again(t)
    \/ \E reminder_id \in DOMAIN reminders :
         start_edit_reminder(1, "edit_interval_days", reminder_id)
    \/ \E text \in IntervalTexts : process_edit_reminder(1, text)

SpecRenewLoop == InitRenewLoop /\ [][NextRenewLoop]_vars

\* C35: every renewal moves the last_reset_date of the tracking it renews
\* strictly forward, for every repeating time tracking the owner can make
\* with the creation flow and the interval edit.
C35_RenewalStrictlyAdvances ==
    [][\A t \in DOMAIN tasks :
         RenewalStep(t) =>
            reminders'[Head(tasks[t].rows).reminder_id].last_reset_date
               > reminders[Head(tasks[t].rows).reminder_id].last_reset_date]_vars

\* ------------------------------------------------------ creating a tracking
\* Mutant: a configuration that has costs.
ConfigWithCosts == [raises |-> FALSE, create_reminder |-> add_car]

\* config.costs: Settings has the fields bot_token, admin_ids, rewards and
\* mileage_update_reminder_days and no field costs, so the attribute lookup
\* raises AttributeError wherever a handler comes to it
config_costs == [raises |-> TRUE, create_reminder |-> NULL]

\* create_reminder_start: line 202 reads config.costs before anything else;
\* with a cost, the balance of User.get_user decides between the alert and
\* the state get_name
create_reminder_start(u) ==
    /\ IF config_costs.raises
       THEN fsm' = fsm
       ELSE IF (IF u \in DOMAIN users THEN users[u].balance_nuts ELSE 0)
                  < config_costs.create_reminder
       THEN fsm' = fsm
       ELSE fsm' = [fsm EXCEPT ![u] =
                      [state |-> "get_name", prompt_message_id |-> 1] @@ @]
    /\ UNCHANGED <<users_has_referral_code, sqlite_sequence, users, cars, transactions,
                   reminders, reqs, today, tasks, outbox>>

\* process_reminder_type: a callback handler without a state filter, so a
\* type keyboard of an earlier message starts it in any state
process_reminder_type(u, reminder_type) ==
    /\ fsm' = [fsm EXCEPT ![u] =
                 [state |-> CASE reminder_type = "mileage_interval" -> "get_mileage_interval"
                              [] reminder_type = "exact_mileage" -> "get_exact_mileage_target"
                              [] OTHER -> "get_time_target_date",
                  type |-> reminder_type] @@ @]
    /\ UNCHANGED <<users_has_referral_code, sqlite_sequence, users, cars, transactions,
                   reminders, reqs, today, tasks, outbox>>

\* The message handlers of the states get_name and get_mileage_interval:
\* process_reminder_name keeps any text as the name; process_mileage_interval
\* replies to a text that is not digits and keeps int(message.text)
creation_flow_message(u, text) ==
    /\ fsm[u].state \in {"get_name", "get_mileage_interval"}
    /\ IF fsm[u].state = "get_name"
       THEN fsm' = [fsm EXCEPT ![u] =
                      [state |-> "choose_type", name |-> "reminder"] @@ @]
       ELSE IF ~isdigit(text) \/ text.int_raises
       THEN fsm' = fsm
       ELSE fsm' = [fsm EXCEPT ![u] =
                      [state |-> "get_mileage_interval_start",
                       interval_km |-> text.int] @@ @]
    /\ UNCHANGED <<users_has_referral_code, sqlite_sequence, users, cars, transactions,
                   reminders, reqs, today, tasks, outbox>>

\* process_use_current_mileage, again without a state filter, up to the
\* first await of _finish_reminder_creation: update_data, then get_data
process_use_current_mileage(r, u, mileage) ==
    /\ reqs[r].pc = "idle"
    /\ fsm' = [fsm EXCEPT ![u] = [last_reset_mileage |-> mileage] @@ @]
    /\ reqs' = [reqs EXCEPT ![r] =
                  [data |-> fsm'[u]] @@
                  [IdleReq EXCEPT !.handler = "process_use_current_mileage",
                                  !.pc = "get_active_car", !.user_id = u]]
    /\ UNCHANGED <<users_has_referral_code, sqlite_sequence, users, cars, transactions,
                   reminders, today, tasks, outbox>>

\* The row Reminder.add_reminder inserts from the FSM data.
add_reminder_row(car_id, data) ==
    [car_id |-> car_id, name |-> data.name,
     type |-> IF "type" \in DOMAIN data THEN data.type ELSE "None",
     interval_km |-> IF "interval_km" \in DOMAIN data THEN data.interval_km ELSE NULL,
     last_reset_mileage |-> data.last_reset_mileage,
     interval_days |-> NULL, last_reset_date |-> NULL, is_repeating |-> FALSE,
     target_mileage |-> NULL, target_date |-> NULL,
     notification_schedule |-> InitialSchedule]

\* _finish_reminder_creation from one await to the next: Car.get_active_car;
\* Reminder.add_reminder, which raises on a name of None (name TEXT NOT
\* NULL), and after it line 292, which reads config.costs;
\* Transaction.add_transaction of -cost, with no look at the balance;
\* state.clear()
finish_reminder_creation(r) ==
    LET u == reqs[r].user_id
        done == [reqs EXCEPT ![r].pc = "done"] IN
    /\ reqs[r].handler = "process_use_current_mileage"
    /\ reqs[r].pc \in {"get_active_car", "add_reminder", "add_transaction", "clear"}
    /\ CASE reqs[r].pc = "get_active_car" ->
              /\ users' = get_active_car_users(u)
              /\ IF get_active_car(u) = NULL
                 THEN fsm' = [fsm EXCEPT ![u] = StateClear] /\ reqs' = done
                 ELSE /\ fsm' = fsm
                      /\ reqs' = [reqs EXCEPT ![r].pc = "add_reminder",
                                              ![r].car_id = get_active_car(u)]
              /\ UNCHANGED <<sqlite_sequence, transactions, reminders>>
         [] reqs[r].pc = "add_reminder" ->
              IF "name" \notin DOMAIN reqs[r].data
              THEN /\ reqs' = done
                   /\ UNCHANGED <<sqlite_sequence, users, transactions, reminders, fsm>>
              ELSE /\ sqlite_sequence' = [sqlite_sequence EXCEPT !.reminders = @ + 1]
                   /\ reminders' = reminders @@
                        (sqlite_sequence.reminders + 1 :>
                            add_reminder_row(reqs[r].car_id, reqs[r].data))
                   /\ reqs' = IF config_costs.raises THEN done
                              ELSE [reqs EXCEPT ![r].pc = "add_transaction"]
                   /\ UNCHANGED <<users, transactions, fsm>>
         [] reqs[r].pc = "add_transaction" ->
              /\ add_transaction(u, 0 - config_costs.create_reminder,
                                 Description("create_reminder"))
              /\ reqs' = [reqs EXCEPT ![r].pc = "clear"]
              /\ UNCHANGED <<sqlite_sequence, reminders, fsm>>
         [] OTHER ->
              /\ fsm' = [fsm EXCEPT ![u] = StateClear]
              /\ reqs' = done
              /\ UNCHANGED <<sqlite_sequence, users, transactions, reminders>>
    /\ UNCHANGED <<users_has_referral_code, cars, today, tasks, outbox>>

\* A registered owner of a car, with the reward for it or with that and a
\* grant of an admin, in a chat that still shows keyboards of the creation
\* flow; the FSM storage is new.
InitCreate ==
    /\ users_has_referral_code = TRUE
    /\ sqlite_sequence = [cars |-> 1, reminders |-> 0]
    /\ \E granted \in {0, add_car} :
         /\ users = (1 :> [balance_nuts |-> add_car + granted, active_car_id |-> 1,
                           referrer_id |-> NULL,
                           mileage_reminder_period |-> DefaultMileageReminderPeriod])
         /\ transactions =
              <<[user_id |-> 1, amount |-> add_car,
                 description |-> Description("add_car")]>>
              \o (IF granted = 0 THEN <<>>
                  ELSE <<[user_id |-> 1, amount |-> granted,
                          description |-> Description("admin_grant")]>>)
    /\ \E active \in BOOLEAN :
         cars = IF active
                THEN (1 :> [user_id |-> 1, mileage |-> 0,
                            mileage_allowance |-> DefaultMileageAllowance,
                            last_mileage_update_at |-> 0,
                            last_allowance_update_at |-> 0,
                            summary_filled |-> {}])
                ELSE <<>>
    /\ reminders = <<>>
    /\ fsm = [u \in UserIds |-> StateClear]
    /\ reqs = [r \in ReqIds |-> IdleReq]
    /\ today = 0
    /\ tasks = <<>>
    /\ outbox = <<>>

NextCreate ==
    \/ create_reminder_start(1)
    \/ \E reminder_type \in {"mileage_interval", "time"} :
         process_reminder_type(1, reminder_type)
    \/ \E text \in IntervalTexts : creation_flow_message(1, text)
    \/ \E r \in ReqIds : process_use_current_mileage(r, 1, 0)
    \/ \E r \in ReqIds : finish_reminder_creation(r)
    \/ add_nuts_command(1, add_car)

SpecCreate == InitCreate /\ [][NextCreate]_vars

C37_OneReferralBonusPerNewUser ==
    [][\A r \in ReqIds :
         (/\ reqs[r].handler = "command_start"
          /\ reqs[r].pc = "bonus"
          /\ reqs'[r].pc = "menu")
         => /\ reqs[r].referrer_id # reqs[r].user_id
            /\ ~\E q \in ReqIds \ {r} :
                  /\ reqs[q].handler = "command_start"
                  /\ reqs[q].user_id = reqs[r].user_id
                  /\ reqs[q].pc = "menu"
                  /\ gets_referral_bonus(reqs[q])]_vars

\* ------------------------------------------------------------- the garage
\* Car.delete_car: the users whose active car it was lose it, then the row
\* of cars goes, in one commit
delete_car_users(car_id) ==
    [w \in DOMAIN users |->
        IF users[w].active_car_id = car_id
        THEN [users[w] EXCEPT !.active_car_id = NULL]
        ELSE users[w]]

delete_car_cars(car_id) == [c \in DOMAIN cars \ {car_id} |-> cars[c]]

\* delete_car_process: Car.delete_car of the id in the callback data
delete_car_process(u, car_id) ==
    /\ users' = delete_car_users(car_id)
    /\ cars' = delete_car_cars(car_id)
    /\ UNCHANGED <<users_has_referral_code, sqlite_sequence, transactions, reminders,
                   fsm, reqs, today, tasks, outbox>>

\* select_car: state.clear(), then User.set_active_car of the id in the
\* callback data, which no line compares with the rows of cars
select_car(u, car_id) ==
    /\ fsm' = [fsm EXCEPT ![u] = StateClear]
    /\ users' = set_active_car(u, car_id)
    /\ UNCHANGED <<users_has_referral_code, sqlite_sequence, cars, transactions,
                   reminders, reqs, today, tasks, outbox>>

\* back_to_main_menu: state.clear(), then Car.get_active_car
back_to_main_menu(u) ==
    /\ fsm' = [fsm EXCEPT ![u] = StateClear]
    /\ users' = get_active_car_users(u)
    /\ UNCHANGED <<users_has_referral_code, sqlite_sequence, cars, transactions,
                   reminders, reqs, today, tasks, outbox>>

\* One owner who registers cars, deletes them, goes to the main menu and
\* presses the buttons of garage keyboards, also of keyboards sent before a
\* deletion: the ids on them are the ids the owner's cars have had.
NextGarage ==
    \/ \E u \in {1} : AllIdle /\ start_registration(u)
    \/ \E r \in ReqIds, u \in {1} :
         /\ AllIdle
         /\ sqlite_sequence.cars < MaxCar + 1
         /\ finish_registration_lines_122_131(r, u, 0, 0)
    \/ \E r \in ReqIds : finish_registration_check(r)
    \/ \E r \in ReqIds : finish_registration_award(r)
    \/ \E r \in ReqIds : finish_registration_clear(r)
    \/ \E u \in {1} : \E car_id \in CarsOf(u) : delete_car_process(u, car_id)
    \/ \E u \in {1} : \E car_id \in 1..sqlite_sequence.cars : select_car(u, car_id)
    \/ \E u \in {1} : back_to_main_menu(u)

SpecGarage == Init /\ [][NextGarage]_vars

\* C38: the active_car_id of every user is NULL or the id of a car of that
\* user, and a user who has a car gets a car from get_active_car.
C38_ActiveCarIsOwnCar ==
    \A u \in DOMAIN users :
        /\ \/ users[u].active_car_id = NULL
           \/ /\ users[u].active_car_id \in DOMAIN cars
              /\ cars[users[u].active_car_id].user_id = u
        /\ CarsOf(u) # {} => get_active_car(u) # NULL

====
